---------------------------- MODULE Spec2Model ----------------------------
(***************************************************************************)
(* A model of the TFT chess battle engine: the pieces of piece.py (stats,  *)
(* movement and attack target resolution), the board of board.py and the   *)
(* economy / battle state machine of tft_game.py (TFTGame).                *)
(*                                                                         *)
(* The game object is one record, `game`, whose fields carry the names of  *)
(* the attributes of TFTGame.  Every method of the source is an operator   *)
(* from a game record to a game record, so that a handler that calls other *)
(* methods in sequence is the composition of their operators.  Python      *)
(* object references (the selected piece, the attacker and the defender of *)
(* a pending combat animation) are unit ids into game.units; id 0 is None. *)
(***************************************************************************)
EXTENDS Integers, Sequences, FiniteSets, TLC

VARIABLES game

vars == <<game>>

(***************************************************************************)
(* Program constants.                                                      *)
(***************************************************************************)
BoardSize == 8
LogCapacity == 8
StartCoins == 3
WinBonus == 3
RoundIncome == 1
ShopPeriod == 3
ShopSlots == 5
LightningDamage == 3

(***************************************************************************)
(* Bounds of the model.                                                    *)
(***************************************************************************)
\* Battles are started only while round_number <= MaxRound.
MaxRound == 2
\* SpecPieces places at most MaxBlockers other units around the probed piece.
MaxBlockers == 2

None == 0
WHITE == "white"
BLACK == "black"
Colors == {WHITE, BLACK}

Rows == 0 .. (BoardSize - 1)
Cells == Rows \X Rows

InBounds(r, c) == 0 <= r /\ r < BoardSize /\ 0 <= c /\ c < BoardSize

Max(a, b) == IF a >= b THEN a ELSE b
Min(a, b) == IF a <= b THEN a ELSE b

Other(color) == IF color = WHITE THEN BLACK ELSE WHITE

\* str.title() of a colour or piece type value, as the log messages use it.
Title(s) ==
    CASE s = "white" -> "White"
      [] s = "black" -> "Black"
      [] s = "pawn" -> "Pawn"
      [] s = "knight" -> "Knight"
      [] s = "bishop" -> "Bishop"
      [] s = "rook" -> "Rook"
      [] s = "queen" -> "Queen"
      [] s = "king" -> "King"
      [] OTHER -> s

(***************************************************************************)
(* piece.py: the classes of pieces.  A unit is a record; cls is its Python *)
(* class, piece_type the PieceType it was constructed with.                *)
(***************************************************************************)
Classes == {"Piece", "Pawn", "Knight", "Bishop", "Rook", "Tower", "Queen", "King"}
SlidingClasses == {"Bishop", "Rook", "Queen"}
SlidingAttackClasses == {"Bishop", "Rook", "Tower", "Queen"}

\* Piece.__init__ with the defaults attack = 0, hp = 0, max_hp = 0.
Piece(piece_type, color, row, col) ==
    [cls |-> "Piece", piece_type |-> piece_type, color |-> color,
     row |-> row, col |-> col, max_hp |-> 0, hp |-> 0, attack |-> 0]

Pawn(color, row, col) ==
    [Piece("pawn", color, row, col) EXCEPT !.cls = "Pawn", !.max_hp = 3, !.hp = 3, !.attack = 1]

Knight(color, row, col) ==
    [Piece("knight", color, row, col) EXCEPT !.cls = "Knight", !.max_hp = 6, !.hp = 6, !.attack = 3]

Bishop(color, row, col) ==
    [Piece("bishop", color, row, col) EXCEPT !.cls = "Bishop", !.max_hp = 5, !.hp = 5, !.attack = 2]

Rook(color, row, col) ==
    [Piece("rook", color, row, col) EXCEPT !.cls = "Rook", !.max_hp = 8, !.hp = 8, !.attack = 4]

\* A granted unit that is an ordinary Rook.
movable_tower(color, row, col) == Rook(color, row, col)

Tower(color, row, col) ==
    [Piece("rook", color, row, col) EXCEPT !.cls = "Tower", !.max_hp = 8, !.hp = 8, !.attack = 4]

Queen(color, row, col) ==
    [Piece("queen", color, row, col) EXCEPT !.cls = "Queen", !.max_hp = 10, !.hp = 10, !.attack = 5]

King(color, row, col) ==
    [Piece("king", color, row, col) EXCEPT !.cls = "King", !.max_hp = 12, !.hp = 12, !.attack = 2]

\* An instance of class cls.
NewPiece(cls, color, row, col) ==
    CASE cls = "Pawn" -> Pawn(color, row, col)
      [] cls = "Knight" -> Knight(color, row, col)
      [] cls = "Bishop" -> Bishop(color, row, col)
      [] cls = "Rook" -> Rook(color, row, col)
      [] cls = "Tower" -> Tower(color, row, col)
      [] cls = "Queen" -> Queen(color, row, col)
      [] cls = "King" -> King(color, row, col)
      [] OTHER -> Piece("pawn", color, row, col)

\* Piece.is_alive
is_alive(u) == u.hp > 0

\* Piece.take_damage
take_damage(u, damage) == [u EXCEPT !.hp = Max(0, u.hp - damage)]

\* Piece.move_to
move_to(u, row, col) == [u EXCEPT !.row = row, !.col = col]

(***************************************************************************)
(* Movement and targeting.  `us` is the table of units, `grid` the board   *)
(* (cell -> unit id, None for an empty cell), `p` the id of the piece.     *)
(* The source returns lists; only membership is ever asked of them, so     *)
(* they are sets here.                                                     *)
(***************************************************************************)
KnightOffsets ==
    {<<-2, -1>>, <<-2, 1>>, <<-1, -2>>, <<-1, 2>>, <<1, -2>>, <<1, 2>>, <<2, -1>>, <<2, 1>>}

KingOffsets ==
    {<<-1, -1>>, <<-1, 0>>, <<-1, 1>>, <<0, -1>>, <<0, 1>>, <<1, -1>>, <<1, 0>>, <<1, 1>>}

DiagonalDirs == {<<-1, -1>>, <<-1, 1>>, <<1, -1>>, <<1, 1>>}
OrthogonalDirs == {<<-1, 0>>, <<1, 0>>, <<0, -1>>, <<0, 1>>}

\* The living enemy test of every get_attack_targets.
IsLivingEnemy(us, grid, color, cell) ==
    /\ grid[cell] # None
    /\ us[grid[cell]].color # color
    /\ is_alive(us[grid[cell]])

\* One direction of a sliding get_valid_moves: for i in range(1, 8), break
\* when out of bounds, append while the cell is None, break at any piece.
SlideMovesDir(grid, row, col, d) ==
    {<<row + i * d[1], col + i * d[2]>> : i \in
        {k \in 1 .. (BoardSize - 1) :
            \A j \in 1 .. k :
                /\ InBounds(row + j * d[1], col + j * d[2])
                /\ grid[<<row + j * d[1], col + j * d[2]>>] = None}}

SlideMoves(grid, row, col, dirs) ==
    UNION {SlideMovesDir(grid, row, col, d) : d \in dirs}

\* A scan that does not stop at the first piece found: every living enemy
\* of the direction is appended.
SlideTargetsDirThrough(us, grid, color, row, col, d) ==
    {<<row + i * d[1], col + i * d[2]>> : i \in
        {k \in 1 .. (BoardSize - 1) :
            /\ InBounds(row + k * d[1], col + k * d[2])
            /\ IsLivingEnemy(us, grid, color, <<row + k * d[1], col + k * d[2]>>)}}

\* One direction of a sliding get_attack_targets: the first piece found
\* stops the scan and is appended when it is a living enemy.
SlideTargetsDir(us, grid, color, row, col, d) ==
    {<<row + i * d[1], col + i * d[2]>> : i \in
        {k \in 1 .. (BoardSize - 1) :
            /\ InBounds(row + k * d[1], col + k * d[2])
            /\ \A j \in 1 .. (k - 1) : grid[<<row + j * d[1], col + j * d[2]>>] = None
            /\ IsLivingEnemy(us, grid, color, <<row + k * d[1], col + k * d[2]>>)}}

SlideTargets(us, grid, color, row, col, dirs) ==
    UNION {SlideTargetsDir(us, grid, color, row, col, d) : d \in dirs}

\* A fixed-offset get_attack_targets (Knight, King).
OffsetTargets(us, grid, color, row, col, offsets) ==
    {<<row + d[1], col + d[2]>> : d \in
        {o \in offsets :
            /\ InBounds(row + o[1], col + o[2])
            /\ IsLivingEnemy(us, grid, color, <<row + o[1], col + o[2]>>)}}

PawnDirection(color) == IF color = WHITE THEN -1 ELSE 1
\* The start rows exchanged between the colours.
PawnStartRow_exchanged(color) == IF color = WHITE THEN 1 ELSE 6
PawnStartRow(color) == IF color = WHITE THEN 6 ELSE 1

Pawn_get_valid_moves(us, grid, p) ==
    LET u == us[p]
        direction == PawnDirection(u.color)
        one == u.row + direction
        two == u.row + 2 * direction
    IN  IF InBounds(one, u.col) /\ grid[<<one, u.col>>] = None
        THEN {<<one, u.col>>} \cup
             (IF u.row = PawnStartRow(u.color) /\ InBounds(two, u.col)
                    /\ grid[<<two, u.col>>] = None
              THEN {<<two, u.col>>} ELSE {})
        ELSE {}

Pawn_get_attack_targets(us, grid, p) ==
    LET u == us[p]
    IN  OffsetTargets(us, grid, u.color, u.row, u.col,
                      {<<PawnDirection(u.color), -1>>, <<PawnDirection(u.color), 1>>})

\* Knight.get_valid_moves: a cell is appended when it is None or holds a
\* living piece of the other colour.
Knight_get_valid_moves(us, grid, p) ==
    LET u == us[p]
    IN  {<<u.row + d[1], u.col + d[2]>> : d \in
            {o \in KnightOffsets :
                /\ InBounds(u.row + o[1], u.col + o[2])
                /\ \/ grid[<<u.row + o[1], u.col + o[2]>>] = None
                   \/ IsLivingEnemy(us, grid, u.color, <<u.row + o[1], u.col + o[2]>>)}}

Knight_get_attack_targets(us, grid, p) ==
    OffsetTargets(us, grid, us[p].color, us[p].row, us[p].col, KnightOffsets)

Bishop_get_valid_moves(us, grid, p) == SlideMoves(grid, us[p].row, us[p].col, DiagonalDirs)

Bishop_get_attack_targets(us, grid, p) ==
    SlideTargets(us, grid, us[p].color, us[p].row, us[p].col, DiagonalDirs)

Rook_get_valid_moves(us, grid, p) == SlideMoves(grid, us[p].row, us[p].col, OrthogonalDirs)

Rook_get_attack_targets(us, grid, p) ==
    SlideTargets(us, grid, us[p].color, us[p].row, us[p].col, OrthogonalDirs)

Tower_get_attack_targets(us, grid, p) ==
    SlideTargets(us, grid, us[p].color, us[p].row, us[p].col, OrthogonalDirs)

Queen_get_valid_moves(us, grid, p) ==
    SlideMoves(grid, us[p].row, us[p].col, OrthogonalDirs \cup DiagonalDirs)

Queen_get_attack_targets(us, grid, p) ==
    SlideTargets(us, grid, us[p].color, us[p].row, us[p].col, OrthogonalDirs \cup DiagonalDirs)

King_get_valid_moves(us, grid, p) ==
    LET u == us[p]
    IN  {<<u.row + d[1], u.col + d[2]>> : d \in
            {o \in KingOffsets :
                /\ InBounds(u.row + o[1], u.col + o[2])
                /\ grid[<<u.row + o[1], u.col + o[2]>>] = None}}

King_get_attack_targets(us, grid, p) ==
    OffsetTargets(us, grid, us[p].color, us[p].row, us[p].col, KingOffsets)

\* piece.get_valid_moves(board), dispatched on the class of the piece; the
\* base class Piece and Tower return [].
get_valid_moves(us, grid, p) ==
    CASE us[p].cls = "Pawn" -> Pawn_get_valid_moves(us, grid, p)
      [] us[p].cls = "Knight" -> Knight_get_valid_moves(us, grid, p)
      [] us[p].cls = "Bishop" -> Bishop_get_valid_moves(us, grid, p)
      [] us[p].cls = "Rook" -> Rook_get_valid_moves(us, grid, p)
      [] us[p].cls = "Queen" -> Queen_get_valid_moves(us, grid, p)
      [] us[p].cls = "King" -> King_get_valid_moves(us, grid, p)
      [] OTHER -> {}

\* piece.get_attack_targets(board); the base class Piece returns [].
get_attack_targets(us, grid, p) ==
    CASE us[p].cls = "Pawn" -> Pawn_get_attack_targets(us, grid, p)
      [] us[p].cls = "Knight" -> Knight_get_attack_targets(us, grid, p)
      [] us[p].cls = "Bishop" -> Bishop_get_attack_targets(us, grid, p)
      [] us[p].cls = "Rook" -> Rook_get_attack_targets(us, grid, p)
      [] us[p].cls = "Tower" -> Tower_get_attack_targets(us, grid, p)
      [] us[p].cls = "Queen" -> Queen_get_attack_targets(us, grid, p)
      [] us[p].cls = "King" -> King_get_attack_targets(us, grid, p)
      [] OTHER -> {}

\* Piece.can_attack
can_attack(us, grid, p, target_row, target_col) ==
    /\ InBounds(target_row, target_col)
    /\ IsLivingEnemy(us, grid, us[p].color, <<target_row, target_col>>)
    /\ <<target_row, target_col>> \in get_attack_targets(us, grid, p)

(***************************************************************************)
(* board.py: Board.                                                        *)
(***************************************************************************)
EmptyGrid == [cell \in Cells |-> None]

\* A lookup that finds every cell empty.
no_piece_at(g, row, col) == None

\* Board.get_piece_at
get_piece_at(g, row, col) == IF InBounds(row, col) THEN g.grid[<<row, col>>] ELSE None

\* Board.is_valid_position
is_valid_position(row, col) == InBounds(row, col)

\* A move that fills the destination and leaves the origin as it is.
move_piece_copying(g, from_row, from_col, to_row, to_col) ==
    IF ~(is_valid_position(from_row, from_col) /\ is_valid_position(to_row, to_col))
       \/ g.grid[<<from_row, from_col>>] = None
    THEN g
    ELSE [g EXCEPT !.grid[<<to_row, to_col>>] = g.grid[<<from_row, from_col>>],
                   !.units[g.grid[<<from_row, from_col>>]] = move_to(@, to_row, to_col)]

\* Board.move_piece
move_piece(g, from_row, from_col, to_row, to_col) ==
    IF ~(is_valid_position(from_row, from_col) /\ is_valid_position(to_row, to_col))
    THEN g
    ELSE LET piece == g.grid[<<from_row, from_col>>]
         IN  IF piece = None
             THEN g
             ELSE [g EXCEPT
                     !.grid = [[@ EXCEPT ![<<from_row, from_col>>] = None]
                                 EXCEPT ![<<to_row, to_col>>] = piece],
                     !.units[piece] = move_to(@, to_row, to_col)]

\* Board.get_all_pieces(color) scans the grid row by row; Board.get_king
\* returns the first king of that colour in this order, or None.
RowMajor(cell) == cell[1] * BoardSize + cell[2]

get_king(g, color) ==
    LET kings == {cell \in Cells :
                    /\ g.grid[cell] # None
                    /\ g.units[g.grid[cell]].color = color
                    /\ g.units[g.grid[cell]].piece_type = "king"}
    IN  IF kings = {}
        THEN None
        ELSE g.grid[CHOOSE cell \in kings : \A o \in kings : RowMajor(cell) <= RowMajor(o)]

\* Board.is_king_alive
is_king_alive(g, color) ==
    get_king(g, color) # None /\ is_alive(g.units[get_king(g, color)])

(***************************************************************************)
(* tft_game.py: TFTGame.                                                   *)
(***************************************************************************)
SETUP == "setup"
BATTLE == "battle"
SHOP == "shop"
END_ROUND == "end_round"

\* combat_anim is None or one dict: a sequence of at most one record.
NoAnim == <<>>

\* An append that makes room by dropping the newest message it holds.
add_to_log_dropping_newest(g, message) ==
    IF g.log_tracked
    THEN [g EXCEPT !.game_log =
            IF Len(@) >= LogCapacity
            THEN Append(SubSeq(@, 1, LogCapacity - 1), message)
            ELSE Append(@, message)]
    ELSE g

\* TFTGame.add_to_log.  No method reads game_log except to draw it, so the
\* log does not influence any other field; a specification that does not
\* observe the log starts with log_tracked false and leaves it empty.
add_to_log(g, message) ==
    LET appended == Append(g.game_log, message)
    IN  IF g.log_tracked
        THEN [g EXCEPT !.game_log =
                         IF Len(appended) > LogCapacity THEN Tail(appended) ELSE appended]
        ELSE g

\* A shop item: a Piece template or a Card.
PieceItem(piece_type) ==
    [kind |-> "piece", type |-> piece_type, immediate |-> FALSE, cost |-> 0]

\* A card of the shop that is never marked immediate.
StoredCardItem(card_type) ==
    [kind |-> "card", type |-> card_type, immediate |-> FALSE, cost |-> 3]

CardItem(card_type) ==
    [kind |-> "card", type |-> card_type, immediate |-> (card_type # "disarm"), cost |-> 3]

ShopItem(kind, type) == IF kind = "card" THEN CardItem(type) ELSE PieceItem(type)

\* TFTGame.generate_shop.  `rolls` is the outcome of the random draws: one
\* entry per slot, [kind, w, b], where kind is "piece" (roll < 0.5 or
\* roll >= 0.8) or "card" and w, b are the items drawn for White and Black.
generate_shop(g, rolls) ==
    [g EXCEPT
        !.white_shop_items = [i \in 1 .. ShopSlots |-> ShopItem(rolls[i].kind, rolls[i].w)],
        !.black_shop_items = [i \in 1 .. ShopSlots |-> ShopItem(rolls[i].kind, rolls[i].b)],
        !.shop_generations = @ + 1]

\* TFTGame.start_next_round
start_next_round(g, rolls) ==
    LET g1 == [g EXCEPT !.round_number = @ + 1]
        g2 == IF g1.round_number % ShopPeriod = 1
              THEN add_to_log(
                     generate_shop([g1 EXCEPT !.shop_open = TRUE, !.phase = SHOP], rolls),
                     "Round " \o ToString(g1.round_number) \o ": Shop is open!")
              ELSE add_to_log(
                     [g1 EXCEPT !.shop_open = FALSE, !.phase = SETUP],
                     "Round " \o ToString(g1.round_number) \o ": Prepare for battle")
    IN  [g2 EXCEPT !.battle_ended = FALSE]

\* TFTGame.end_battle_phase
end_battle_phase(g, rolls) ==
    LET g1 == [g EXCEPT !.phase = END_ROUND, !.battle_ended = TRUE,
                        !.white_coins = @ + RoundIncome, !.black_coins = @ + RoundIncome]
        g2 == add_to_log(g1, "Round " \o ToString(g1.round_number)
                                \o " ended! +1 coin to both players")
    IN  IF ~g2.end THEN start_next_round(g2, rolls) ELSE g2

\* TFTGame.end_game
end_game(g) == [add_to_log(g, "Click anywhere to reset the game") EXCEPT !.end = TRUE]

\* A start of battle that keeps the acted flags of the battle before.
start_battle_phase_keeping_flags(g) ==
    LET g1 == [g EXCEPT !.phase = BATTLE, !.shop_open = FALSE, !.battle_ended = FALSE,
                        !.current_player = WHITE]
    IN  add_to_log(g1, "Round " \o ToString(g1.round_number) \o " Battle begins!")

\* TFTGame.start_battle_phase
start_battle_phase(g) ==
    LET g1 == [g EXCEPT !.phase = BATTLE, !.shop_open = FALSE, !.battle_ended = FALSE,
                        !.current_player = WHITE]
        g2 == add_to_log(g1, "Round " \o ToString(g1.round_number) \o " Battle begins!")
    IN  [g2 EXCEPT !.actions_taken = [c \in Colors |-> FALSE]]

\* TFTGame.get_piece_cost
get_piece_cost(piece_type) ==
    CASE piece_type = "pawn" -> 1
      [] piece_type = "knight" -> 3
      [] piece_type = "bishop" -> 3
      [] piece_type = "rook" -> 5
      [] piece_type = "queen" -> 9
      [] piece_type = "king" -> 99
      [] OTHER -> 99

\* TFTGame.handle_piece_death
handle_piece_death(g, dead_piece, killer_color) ==
    LET half == get_piece_cost(g.units[dead_piece].piece_type) \div 2
        reward == IF half < 1 THEN 1 ELSE half
    IN  IF killer_color = WHITE
        THEN add_to_log([g EXCEPT !.white_coins = @ + reward],
                        "White gains " \o ToString(reward) \o " coins for killing "
                            \o Title(g.units[dead_piece].piece_type))
        ELSE add_to_log([g EXCEPT !.black_coins = @ + reward],
                        "Black gains " \o ToString(reward) \o " coins for killing "
                            \o Title(g.units[dead_piece].piece_type))

\* TFTGame.select_piece
select_piece(g, piece, row, col) ==
    [g EXCEPT !.selected_piece = piece, !.selected_row = row, !.selected_col = col,
              !.valid_moves = get_valid_moves(g.units, g.grid, piece),
              !.attack_targets = get_attack_targets(g.units, g.grid, piece),
              !.action_mode = "move"]

\* TFTGame.deselect_piece
deselect_piece(g) ==
    [g EXCEPT !.selected_piece = None, !.selected_row = -1, !.selected_col = -1,
              !.valid_moves = {}, !.attack_targets = {}, !.action_mode = "move"]

\* TFTGame.switch_player
switch_player(g) ==
    LET g1 == [g EXCEPT !.current_player = Other(@)]
    IN  add_to_log(g1, Title(g1.current_player) \o "'s turn")

\* check_battle_end with the second test as an `if` of its own: with both
\* kings not alive, both branches are taken.
check_battle_end_paying_both(g, rolls) ==
    IF g.phase # BATTLE
    THEN g
    ELSE LET g1 == IF ~is_king_alive(g, WHITE)
                   THEN end_game(end_battle_phase(
                            [add_to_log(g, "BLACK WINS THE BATTLE! White King defeated!")
                                EXCEPT !.black_coins = @ + WinBonus,
                                       !.win_bonuses[BLACK] = @ + 1], rolls))
                   ELSE g
         IN  IF ~is_king_alive(g, BLACK)
             THEN end_game(end_battle_phase(
                      [add_to_log(g1, "WHITE WINS THE BATTLE! Black King defeated!")
                          EXCEPT !.white_coins = @ + WinBonus,
                                 !.win_bonuses[WHITE] = @ + 1], rolls))
             ELSE g1

\* TFTGame.check_battle_end. win_bonuses counts, per side, the times the
\* win bonus has been added to its coins.
check_battle_end(g, rolls) ==
    IF g.phase # BATTLE
    THEN g
    ELSE IF ~is_king_alive(g, WHITE)
         THEN end_game(end_battle_phase(
                  [add_to_log(g, "BLACK WINS THE BATTLE! White King defeated!")
                      EXCEPT !.black_coins = @ + WinBonus,
                             !.win_bonuses[BLACK] = @ + 1], rolls))
         ELSE IF ~is_king_alive(g, BLACK)
              THEN end_game(end_battle_phase(
                       [add_to_log(g, "WHITE WINS THE BATTLE! Black King defeated!")
                           EXCEPT !.white_coins = @ + WinBonus,
                                  !.win_bonuses[WHITE] = @ + 1], rolls))
              ELSE g

\* all(self.actions_taken.values())
AllActed(g) == \A c \in Colors : g.actions_taken[c]

\* The statement pair
\*   self.actions_taken[self.current_player] = True
\*   if all(self.actions_taken.values()): self.end_battle_phase()
MarkActed(g, rolls) ==
    LET g1 == [g EXCEPT !.actions_taken[g.current_player] = TRUE]
    IN  IF AllActed(g1) THEN end_battle_phase(g1, rolls) ELSE g1

\* TFTGame.make_move
make_move(g, from_row, from_col, to_row, to_col, rolls) ==
    LET moving_piece == get_piece_at(g, from_row, from_col)
    IN  IF moving_piece = None \/ ~is_alive(g.units[moving_piece])
        THEN g
        ELSE LET g1 == IF get_piece_at(g, to_row, to_col) = None
                       THEN move_piece(g, from_row, from_col, to_row, to_col)
                       ELSE g
                 g2 == MarkActed(g1, rolls)
             IN  check_battle_end(switch_player(deselect_piece(g2)), rolls)

\* TFTGame.make_attack: the combat animation is started and the acting side
\* is marked (the marking statements appear twice in the source); damage,
\* removal, the switch of player and the victory check are left to draw().
make_attack(g, attacker_row, attacker_col, target_row, target_col, rolls) ==
    LET attacking_piece == get_piece_at(g, attacker_row, attacker_col)
        target_piece == get_piece_at(g, target_row, target_col)
    IN  IF attacking_piece = None \/ ~is_alive(g.units[attacking_piece])
        THEN g
        ELSE IF target_piece = None \/ ~is_alive(g.units[target_piece])
        THEN g
        ELSE IF ~can_attack(g.units, g.grid, attacking_piece, target_row, target_col)
        THEN g
        ELSE LET g1 == [g EXCEPT !.combat_anim =
                          <<[attacker |-> attacking_piece, defender |-> target_piece,
                             attacker_pos |-> <<attacker_row, attacker_col>>,
                             defender_pos |-> <<target_row, target_col>>]>>]
             IN  MarkActed(MarkActed(g1, rolls), rolls)

\* TFTGame.handle_combat
handle_combat(g, attacker, defender) ==
    LET a == g.units[attacker]
        g1 == [g EXCEPT !.units[defender] = take_damage(@, a.attack)]
        d == g1.units[defender]
        g2 == add_to_log(g1, Title(a.color) \o " " \o Title(a.piece_type) \o " attacks "
                    \o Title(d.color) \o " " \o Title(d.piece_type) \o " for "
                    \o ToString(a.attack) \o " damage")
    IN  IF ~is_alive(d)
        THEN add_to_log(g2, Title(d.color) \o " " \o Title(d.piece_type) \o " is destroyed!")
        ELSE add_to_log(g2, Title(d.color) \o " " \o Title(d.piece_type) \o " has "
                    \o ToString(d.hp) \o "/" \o ToString(d.max_hp) \o " HP remaining")

\* TFTGame.draw, the part that changes the game: once the 600 ms of a
\* combat animation have elapsed, the combat is applied.
draw(g, rolls) ==
    IF g.combat_anim = NoAnim
    THEN g
    ELSE LET anim == g.combat_anim[1]
             g1 == handle_combat(g, anim.attacker, anim.defender)
             g2 == IF ~is_alive(g1.units[anim.defender])
                   THEN handle_piece_death(
                          [g1 EXCEPT !.grid[anim.defender_pos] = None],
                          anim.defender, g1.units[anim.attacker].color)
                   ELSE g1
             g3 == check_battle_end(switch_player(deselect_piece(g2)), rolls)
         IN  [g3 EXCEPT !.combat_anim = NoAnim]

\* TFTGame.toggle_action_mode
toggle_action_mode(g) ==
    IF g.selected_piece # None
    THEN LET g1 == [g EXCEPT !.action_mode = IF @ = "move" THEN "attack" ELSE "move"]
         IN  add_to_log(g1, "Switched to "
                 \o (IF g1.action_mode = "move" THEN "MOVE" ELSE "ATTACK") \o " mode")
    ELSE g

Reserve(g, player) == IF player = WHITE THEN g.white_reserve ELSE g.black_reserve

\* list.remove(piece): the first occurrence is removed.
RemoveAt(seq, i) == [k \in 1 .. (Len(seq) - 1) |-> IF k < i THEN seq[k] ELSE seq[k + 1]]

\* chr(ord('a') + col) and 8 - row, for a cell of the board.
CellName(row, col) ==
    <<"a", "b", "c", "d", "e", "f", "g", "h">>[col + 1] \o ToString(BoardSize - row)

\* list[col] = x in Python: a negative index counts from the end of the
\* list, an index outside -len .. len - 1 raises IndexError.
PyIndexOk(i) == -BoardSize <= i /\ i < BoardSize
PyIndex(i) == IF i < 0 THEN i + BoardSize ELSE i

\* TFTGame.try_deploy_to_position: [ok, g].  The zone test leaves a row of
\* the board; the column is whatever get_cell_from_mouse computed.  When
\* grid[row][col] = piece raises IndexError the method is left with the
\* position of the piece already written (g.crashed: the exception is not
\* caught anywhere and ends the program).
try_deploy_to_position(g, player, reserve_index, row, col) ==
    LET reserve == Reserve(g, player)
    IN  IF ~(0 <= reserve_index /\ reserve_index < Len(reserve))
        THEN [ok |-> FALSE, g |-> g]
        ELSE IF player = WHITE /\ ~(6 <= row /\ row <= 7)
        THEN [ok |-> FALSE,
              g |-> add_to_log(g, "White can only deploy in rows 7-8 (bottom 2 rows)")]
        ELSE IF player = BLACK /\ ~(0 <= row /\ row <= 1)
        THEN [ok |-> FALSE,
              g |-> add_to_log(g, "Black can only deploy in rows 1-2 (top 2 rows)")]
        ELSE IF get_piece_at(g, row, col) # None
        THEN [ok |-> FALSE, g |-> g]
        ELSE LET piece == reserve[reserve_index + 1]
                 g0 == [g EXCEPT !.units[piece] = move_to(@, row, col)]
             IN  IF ~PyIndexOk(col)
                 THEN [ok |-> FALSE, g |-> [g0 EXCEPT !.crashed = TRUE]]
                 ELSE LET g1 == [g0 EXCEPT !.grid[<<row, PyIndex(col)>>] = piece]
                      IN  [ok |-> TRUE,
                           g |-> IF player = WHITE
                                 THEN [g1 EXCEPT !.white_reserve = RemoveAt(@, reserve_index + 1)]
                                 ELSE [g1 EXCEPT !.black_reserve = RemoveAt(@, reserve_index + 1)]]

\* TFTGame.deploy_from_reserve: the index is looked up in the side's reserve,
\* the row in the side's three rows (5..7 for White, 0..2 for Black), the
\* cell in the grid; then the unit is placed, removed from the reserve and
\* the deployment is logged.
deploy_from_reserve(g, player, reserve_index, board_row, board_col) ==
    LET reserve == Reserve(g, player)
    IN  IF ~(0 <= reserve_index /\ reserve_index < Len(reserve))
        THEN [ok |-> FALSE, g |-> g]
        ELSE IF player = WHITE /\ ~(5 <= board_row /\ board_row <= 7)
        THEN [ok |-> FALSE, g |-> g]
        ELSE IF player = BLACK /\ ~(0 <= board_row /\ board_row <= 2)
        THEN [ok |-> FALSE, g |-> g]
        ELSE IF ~PyIndexOk(board_col)
        THEN [ok |-> FALSE, g |-> [g EXCEPT !.crashed = TRUE]]
        ELSE IF g.grid[<<board_row, PyIndex(board_col)>>] # None
        THEN [ok |-> FALSE, g |-> g]
        ELSE LET piece == reserve[reserve_index + 1]
                 g1 == [g EXCEPT !.units[piece] = move_to(@, board_row, board_col),
                                 !.grid[<<board_row, PyIndex(board_col)>>] = piece]
                 g2 == IF player = WHITE
                       THEN [g1 EXCEPT !.white_reserve = RemoveAt(@, reserve_index + 1)]
                       ELSE [g1 EXCEPT !.black_reserve = RemoveAt(@, reserve_index + 1)]
             IN  [ok |-> TRUE,
                  g |-> add_to_log(g2, Title(player) \o " deployed "
                                          \o Title(g.units[piece].piece_type))]

\* TFTGame.handle_deployment_click, for the cell the click maps to.
handle_deployment_click(g, row, col) ==
    IF ~is_valid_position(row, col)
    THEN g
    ELSE IF get_piece_at(g, row, col) # None
    THEN add_to_log(g, "Position is occupied!")
    ELSE IF Len(Reserve(g, g.current_player)) = 0
    THEN add_to_log(g, "No pieces in " \o Title(g.current_player) \o " reserve to deploy!")
    ELSE LET res == try_deploy_to_position(g, g.current_player, 0, row, col)
         IN  IF res.ok
             THEN add_to_log(res.g, Title(g.current_player) \o " deployed piece to "
                                        \o CellName(row, col))
             ELSE res.g

\* TFTGame.handle_board_click, for the cell the click maps to.
handle_board_click(g, row, col, rolls) ==
    IF g.phase \in {SETUP, SHOP}
    THEN handle_deployment_click(g, row, col)
    ELSE IF g.phase # BATTLE
    THEN g
    ELSE IF ~is_valid_position(row, col)
    THEN g
    ELSE LET clicked_piece == get_piece_at(g, row, col)
             own == /\ clicked_piece # None
                    /\ is_alive(g.units[clicked_piece])
                    /\ g.units[clicked_piece].color = g.current_player
         IN  IF g.selected_piece = None
             THEN IF own THEN select_piece(g, clicked_piece, row, col) ELSE g
             ELSE IF row = g.selected_row /\ col = g.selected_col
             THEN deselect_piece(g)
             ELSE IF <<row, col>> \in g.valid_moves /\ g.action_mode = "move"
             THEN make_move(g, g.selected_row, g.selected_col, row, col, rolls)
             ELSE IF <<row, col>> \in g.attack_targets /\ g.action_mode = "attack"
             THEN make_attack(g, g.selected_row, g.selected_col, row, col, rolls)
             ELSE IF own
             THEN select_piece(g, clicked_piece, row, col)
             ELSE deselect_piece(g)

\* The units that stand on the board.
OnBoard(g) == {g.grid[c] : c \in {x \in Cells : g.grid[x] # None}}

\* A cleanup that leaves the board as it is.
no_cleanup(g) == g

\* Card.cleanup: every cell that holds a dead piece is emptied.
cleanup(g) ==
    [g EXCEPT !.grid = [c \in Cells |->
        IF g.grid[c] # None /\ ~is_alive(g.units[g.grid[c]]) THEN None ELSE g.grid[c]]]

\* A heal without the cap.
UncappedHeal(u) == u.hp + 1

\* The hit points Redemption leaves a living piece with on a tile that is
\* not black: one more, capped at max_hp.
RedemptionHeal(u) == Min(u.max_hp, u.hp + 1)

\* The cell a unit of the board stands on (the first one in scan order).
CellOf(g, p) ==
    CHOOSE c \in Cells : g.grid[c] = p /\ \A o \in Cells : g.grid[o] = p => RowMajor(c) <= RowMajor(o)

\* A cell numbering by columns.
SampleCellTransposed(i) == <<i % BoardSize, i \div BoardSize>>

\* The tiles with row + col even.
is_white_tile(cell) == (cell[1] + cell[2]) % 2 = 0

\* Redemption's test of a tile, (row + col) % 2 == 1: "black".
is_black_tile(cell) == (cell[1] + cell[2]) % 2 = 1

\* The cell of the number i that random.sample(range(64), 5) draws.
SampleCell(i) == <<i \div BoardSize, i % BoardSize>>

\* Card.apply_effect.  `numbers` is the set of the 5 distinct numbers that
\* random.sample(range(64), 5) returns; only Lightning reads it.  A piece is
\* struck once per drawn cell that holds it.
apply_effect_with(g, card_type, player, numbers) ==
    LET g1 == IF card_type = "arrow_volley"
              THEN add_to_log(
                     [g EXCEPT !.units = [p \in DOMAIN g.units |->
                         IF p \in OnBoard(g) /\ is_alive(g.units[p]) /\ g.units[p].color # player
                         THEN [g.units[p] EXCEPT !.hp = Max(0, @ - 1)]
                         ELSE g.units[p]]],
                     Title(player) \o " used Arrow Volley! Enemy units take 1 damage.")
              ELSE IF card_type = "redemption"
              THEN add_to_log(
                     [g EXCEPT !.units = [p \in DOMAIN g.units |->
                         IF p \in OnBoard(g) /\ is_alive(g.units[p])
                         THEN IF is_black_tile(CellOf(g, p))
                              THEN [g.units[p] EXCEPT !.hp = Max(0, @ - 1)]
                              ELSE [g.units[p] EXCEPT !.hp = RedemptionHeal(g.units[p])]
                         ELSE g.units[p]]],
                     Title(player) \o " used Redemption! Black tiles take 1 dmg; white tiles gain 1 health.")
              ELSE IF card_type = "lightning"
              THEN add_to_log(
                     [g EXCEPT !.units = [p \in DOMAIN g.units |->
                         LET struck == Cardinality({i \in numbers : g.grid[SampleCell(i)] = p})
                         IN  IF is_alive(g.units[p])
                             THEN [g.units[p] EXCEPT !.hp = Max(0, @ - LightningDamage * struck)]
                             ELSE g.units[p]]],
                     Title(player) \o " used Lightning! Five random tiles take 3 dmg.")
              ELSE IF card_type = "Tower Defense"
              THEN LET first == Len(g.units) + 1
                       g0 == [g EXCEPT !.units = @ \o <<Tower(player, 0, 0), Tower(player, 0, 0)>>]
                   IN  add_to_log(
                         IF player = WHITE
                         THEN [g0 EXCEPT !.white_reserve = @ \o <<first, first + 1>>]
                         ELSE [g0 EXCEPT !.black_reserve = @ \o <<first, first + 1>>],
                         Title(player) \o " used Tower Defense! Gain 2 rooks that cannot move.")
              ELSE g
    IN  cleanup(g1)

\* Card.apply_effect for the cards that draw no random numbers.
apply_effect(g, card_type, player) == apply_effect_with(g, card_type, player, {})

ShopOf(g, player) == IF player = WHITE THEN g.white_shop_items ELSE g.black_shop_items

\* A can_afford that never refuses.
can_afford_always(g, player, piece_type) == TRUE

\* A can_afford that asks for more coins than the cost.
can_afford_strictly(g, player, piece_type) ==
    (IF player = WHITE THEN g.white_coins ELSE g.black_coins) > get_piece_cost(piece_type)

\* TFTGame.can_afford
can_afford(g, player, piece_type) ==
    (IF player = WHITE THEN g.white_coins ELSE g.black_coins) >= get_piece_cost(piece_type)

\* The buyer pays and the shop list stays as it is.
PayAndKeep(g, player, shop_index, cost) ==
    IF player = WHITE
    THEN [g EXCEPT !.white_coins = @ - cost]
    ELSE [g EXCEPT !.black_coins = @ - cost]

\* The buyer pays and the item leaves the buyer's shop list.
PayAndPop(g, player, shop_index, cost) ==
    IF player = WHITE
    THEN [g EXCEPT !.white_coins = @ - cost, !.white_shop_items = RemoveAt(@, shop_index + 1)]
    ELSE [g EXCEPT !.black_coins = @ - cost, !.black_shop_items = RemoveAt(@, shop_index + 1)]

\* TFTGame.buy_piece: [ok, g].
buy_piece(g, player, shop_index) ==
    LET shop_list == ShopOf(g, player)
    IN  IF ~(0 <= shop_index /\ shop_index < Len(shop_list))
        THEN [ok |-> FALSE, g |-> g]
        ELSE LET item == shop_list[shop_index + 1]
             IN  IF item.kind = "card"
                 THEN IF (IF player = WHITE THEN g.white_coins ELSE g.black_coins) < item.cost
                      THEN [ok |-> FALSE, g |-> g]
                      ELSE LET paid == [g EXCEPT !.white_coins = IF player = WHITE THEN @ - item.cost ELSE @,
                                                 !.black_coins = IF player = BLACK THEN @ - item.cost ELSE @]
                               used == IF item.immediate
                                       THEN IF item.type \in {"arrow_volley", "redemption"}
                                            THEN apply_effect(paid, item.type, player)
                                            ELSE paid
                                       ELSE IF item.type = "disarm"
                                       THEN add_to_log(
                                              IF player = WHITE
                                              THEN [paid EXCEPT !.white_card_inventory = Append(@, item)]
                                              ELSE [paid EXCEPT !.black_card_inventory = Append(@, item)],
                                              Title(player) \o " bought Disarm card (stored in inventory).")
                                       ELSE paid
                           IN  [ok |-> TRUE, g |-> PayAndPop(used, player, shop_index, 0)]
                 ELSE IF ~can_afford(g, player, item.type)
                 THEN [ok |-> FALSE, g |-> g]
                 ELSE LET cost == get_piece_cost(item.type)
                          new_piece == Len(g.units) + 1
                          g1 == [g EXCEPT !.units = Append(@, Piece(item.type, player, 0, 0))]
                          g2 == IF player = WHITE
                                THEN [g1 EXCEPT !.white_reserve = Append(@, new_piece)]
                                ELSE [g1 EXCEPT !.black_reserve = Append(@, new_piece)]
                      IN  [ok |-> TRUE,
                           g |-> add_to_log(PayAndPop(g2, player, shop_index, cost),
                                    Title(player) \o " bought " \o Title(item.type) \o " for "
                                        \o ToString(cost) \o " coins")]

\* TFTGame.handle_shop_click, for a click on slot shop_index of the shop
\* rectangle of `player` (shop_index is -1 above the first slot).
handle_shop_click(g, player, shop_index) ==
    IF ~g.shop_open
    THEN g
    ELSE IF 0 <= shop_index /\ shop_index < Len(ShopOf(g, player))
    THEN buy_piece(g, player, shop_index).g
    ELSE g

\* TFTGame.handle_reserve_click, for a click on slot piece_index of the
\* reserve of `player`: [index, g], index None (here -1) when nothing is hit.
handle_reserve_click(g, player, piece_index) ==
    IF g.phase \notin {SETUP, SHOP}
    THEN [index |-> -1, g |-> g]
    ELSE IF 0 <= piece_index /\ piece_index < Len(Reserve(g, player))
    THEN [index |-> piece_index,
          g |-> add_to_log(g, "Selected "
                    \o Title(g.units[Reserve(g, player)[piece_index + 1]].piece_type)
                    \o " from reserve - drag to board to deploy!")]
    ELSE [index |-> -1, g |-> g]

\* TFTGame.handle_mouse_down, for a click on slot piece_index of the reserve
\* of `player`.
handle_mouse_down(g, player, piece_index) ==
    LET hit == handle_reserve_click(g, player, piece_index)
    IN  IF hit.index # -1
        THEN [hit.g EXCEPT !.dragging_piece = Reserve(g, player)[hit.index + 1],
                           !.dragging_index = hit.index]
        ELSE hit.g

\* TFTGame.handle_mouse_up, for the cell (row, col) get_cell_from_mouse
\* computes, on or off the board.
handle_mouse_up(g, row, col) ==
    IF g.dragging_piece = None
    THEN g
    ELSE LET player == g.units[g.dragging_piece].color
             res == try_deploy_to_position(g, player, g.dragging_index, row, col)
         IN  IF res.g.crashed
             THEN res.g
             ELSE [add_to_log(res.g,
                      IF res.ok
                      THEN Title(player) \o " deployed "
                               \o Title(g.units[g.dragging_piece].piece_type) \o " to "
                               \o (IF InBounds(row, col) THEN CellName(row, col)
                                                         ELSE "a cell off the board")
                      ELSE "Cannot deploy " \o Title(g.units[g.dragging_piece].piece_type)
                               \o " there. Returned to reserve.")
                   EXCEPT !.dragging_piece = None, !.dragging_index = -1]

(***************************************************************************)
(* A game object as TFTGame.__init__ leaves its fields, over a given table *)
(* of units, board and shop.                                               *)
(***************************************************************************)
NewGame(units, grid, rolls, log_tracked) ==
    generate_shop(
        [units |-> units, grid |-> grid,
         current_player |-> WHITE,
         selected_piece |-> None, selected_row |-> -1, selected_col |-> -1,
         valid_moves |-> {}, attack_targets |-> {},
         action_mode |-> "move", game_log |-> <<>>, end |-> FALSE,
         round_number |-> 1, phase |-> SETUP,
         white_coins |-> StartCoins, black_coins |-> StartCoins,
         white_reserve |-> <<>>, black_reserve |-> <<>>,
         white_shop_items |-> <<>>, black_shop_items |-> <<>>,
         shop_open |-> TRUE, battle_ended |-> FALSE,
         white_card_inventory |-> <<>>, black_card_inventory |-> <<>>,
         actions_taken |-> [c \in Colors |-> FALSE],
         combat_anim |-> NoAnim,
         dragging_piece |-> None, dragging_index |-> -1, crashed |-> FALSE,
         shop_generations |-> 0, win_bonuses |-> [c \in Colors |-> 0],
         log_tracked |-> log_tracked],
        rolls)

\* The board that places each unit of the table at its own row and column.
GridOf(units) ==
    [cell \in Cells |->
        IF \E p \in DOMAIN units : <<units[p].row, units[p].col>> = cell
        THEN CHOOSE p \in DOMAIN units : <<units[p].row, units[p].col>> = cell
        ELSE None]

\* TFTGame.setup_initial_board: a king and four pawns per side, every one
\* built with the base class Piece and its defaults (hp = 0, attack = 0).
setup_initial_board ==
    <<Piece("king", WHITE, 7, 2),
      Piece("pawn", WHITE, 6, 1), Piece("pawn", WHITE, 6, 2),
      Piece("pawn", WHITE, 6, 3), Piece("pawn", WHITE, 6, 4),
      Piece("king", BLACK, 0, 5),
      Piece("pawn", BLACK, 1, 4), Piece("pawn", BLACK, 1, 5),
      Piece("pawn", BLACK, 1, 6), Piece("pawn", BLACK, 1, 7)>>

(***************************************************************************)
(* The battle specification.  The handlers of TFTGame run from the Setup   *)
(* phase of round 1, either over the board of setup_initial_board or over  *)
(* a board of units of the classes of piece.py (BattleUnits).  On the      *)
(* board of setup_initial_board every unit has hp 0, so that no piece can  *)
(* be selected and no battle action is accepted; the properties of moves   *)
(* and attacks are decided on the boards of BattleUnits, whose units carry *)
(* the stats their class constructor gives them.                           *)
(***************************************************************************)
\* The outcomes of the random draws of generate_shop the model considers.
ShopRolls ==
    {[i \in 1 .. ShopSlots |-> [kind |-> "piece", w |-> "pawn", b |-> "pawn"]],
     [i \in 1 .. ShopSlots |->
        IF i = 2 THEN [kind |-> "card", w |-> "disarm", b |-> "arrow_volley"]
                 ELSE [kind |-> "piece", w |-> "knight", b |-> "pawn"]]}

\* The hit points the two kings may have been left with.
WhiteKingHp == {12, 2}
BlackKingHp == {12, 3}

BattleUnits(whp, bhp) ==
    <<[King(WHITE, 2, 4) EXCEPT !.hp = whp],
      [King(BLACK, 1, 3) EXCEPT !.hp = bhp],
      Knight(WHITE, 3, 2),
      Pawn(BLACK, 1, 1)>>

\* The cells the model clicks on: the four units and three empty cells.
ClickCells == {<<2, 4>>, <<1, 3>>, <<3, 2>>, <<1, 1>>, <<2, 1>>, <<4, 4>>, <<0, 3>>}

Init ==
    \E rolls \in ShopRolls :
        \/ game = NewGame(setup_initial_board, GridOf(setup_initial_board), rolls, FALSE)
        \/ \E whp \in WhiteKingHp, bhp \in BlackKingHp :
              game = NewGame(BattleUnits(whp, bhp), GridOf(BattleUnits(whp, bhp)),
                             rolls, FALSE)

\* main: once game.end is set, the next mouse or key event replaces the
\* game object by a new TFTGame before it is handled; the handlers below
\* therefore run only while game.end is false.

\* K_b while the phase is Setup or Shop.
KeyB ==
    /\ ~game.end
    /\ game.phase \in {SETUP, SHOP}
    /\ game.round_number <= MaxRound
    /\ game' = start_battle_phase(game)

\* K_SPACE while a piece is selected in Battle.
KeySpace ==
    /\ ~game.end
    /\ game.selected_piece # None
    /\ game.phase = BATTLE
    /\ game' = toggle_action_mode(game)

\* A mouse button event over a cell of the board: main calls handle_click
\* on MOUSEBUTTONDOWN and again on MOUSEBUTTONUP, and handle_click reaches
\* handle_board_click (both reserves are empty).
BoardClick ==
    /\ ~game.end
    /\ \E cell \in ClickCells, rolls \in ShopRolls :
          game' = handle_board_click(game, cell[1], cell[2], rolls)

\* A frame drawn after the 600 ms of the pending combat animation.
Draw ==
    /\ game.combat_anim # NoAnim
    /\ \E rolls \in ShopRolls : game' = draw(game, rolls)

Next == KeyB \/ KeySpace \/ BoardClick \/ Draw

Spec == Init /\ [][Next]_vars

TypeOK ==
    /\ game.phase \in {SETUP, BATTLE, SHOP, END_ROUND}
    /\ game.current_player \in Colors
    /\ Len(game.game_log) <= LogCapacity
    /\ Len(game.combat_anim) <= 1

(***************************************************************************)
(* Properties of the battle specification.                                 *)
(***************************************************************************)
\* The unit a click on (row, col) would act with: the piece on the selected cell.
Actor(g) == get_piece_at(g, g.selected_row, g.selected_col)

\* A click on (row, col) is an accepted move: handle_board_click reaches
\* make_move with a living piece and an empty destination.
MoveAccepted(g, row, col) ==
    /\ ~g.end
    /\ g.phase = BATTLE
    /\ g.selected_piece # None
    /\ <<row, col>> # <<g.selected_row, g.selected_col>>
    /\ <<row, col>> \in g.valid_moves
    /\ g.action_mode = "move"
    /\ Actor(g) # None
    /\ is_alive(g.units[Actor(g)])
    /\ get_piece_at(g, row, col) = None

\* A click on (row, col) is an accepted attack: handle_board_click reaches
\* make_attack and none of its early returns is taken.
AttackAccepted(g, row, col) ==
    /\ ~g.end
    /\ g.phase = BATTLE
    /\ g.selected_piece # None
    /\ <<row, col>> # <<g.selected_row, g.selected_col>>
    /\ <<row, col>> \in g.attack_targets
    /\ g.action_mode = "attack"
    /\ Actor(g) # None
    /\ is_alive(g.units[Actor(g)])
    /\ get_piece_at(g, row, col) # None
    /\ is_alive(g.units[get_piece_at(g, row, col)])
    /\ can_attack(g.units, g.grid, Actor(g), row, col)

ActionAccepted(g, row, col) == MoveAccepted(g, row, col) \/ AttackAccepted(g, row, col)

Coins(g, color) == IF color = WHITE THEN g.white_coins ELSE g.black_coins

ProbeClasses == {"Pawn", "Knight", "Bishop", "Rook", "Tower", "Queen", "King"}

\* Where the probed piece stands: mid-board, and White's pawn row for a
\* Pawn, a corner for the other classes.
ProbePositions(cls) == IF cls = "Pawn" THEN {<<3, 3>>, <<6, 1>>} ELSE {<<3, 3>>, <<0, 0>>}

\* Where the other units stand, relative to the probed piece.
BlockerOffsets ==
    <<<<-1, 0>>, <<-2, 0>>, <<-1, -1>>, <<-2, -2>>, <<-1, 1>>, <<-2, 1>>, <<1, 2>>, <<1, 0>>>>

\* The elements of a set of numbers in increasing order.
Sorted(S) ==
    [i \in 1 .. Cardinality(S) |-> CHOOSE x \in S : Cardinality({y \in S : y < x}) = i - 1]

\* The table of units: the probed piece, then one pawn per chosen offset,
\* of the colour kinds[i][1], alive iff kinds[i][2].
ProbeUnits(cls, color, pos, chosen, kinds) ==
    <<NewPiece(cls, color, pos[1], pos[2])>> \o
    [i \in 1 .. Cardinality(chosen) |->
        LET o == BlockerOffsets[Sorted(chosen)[i]]
            k == kinds[Sorted(chosen)[i]]
        IN  [Pawn(k[1], pos[1] + o[1], pos[2] + o[2]) EXCEPT !.hp = IF k[2] THEN 3 ELSE 0]]

InitPieces ==
    \E cls \in ProbeClasses, color \in Colors, chosen \in SUBSET (DOMAIN BlockerOffsets) :
      \E pos \in ProbePositions(cls) :
        /\ Cardinality(chosen) <= MaxBlockers
        /\ \A i \in chosen : InBounds(pos[1] + BlockerOffsets[i][1], pos[2] + BlockerOffsets[i][2])
        /\ \E kinds \in [chosen -> Colors \X BOOLEAN] :
              LET units == ProbeUnits(cls, color, pos, chosen, kinds)
              IN  game = NewGame(units, GridOf(units),
                                 [i \in 1 .. ShopSlots |->
                                     [kind |-> "piece", w |-> "pawn", b |-> "pawn"]],
                                 FALSE)

\* select_piece on the probed piece.
SelectProbe ==
    /\ game.selected_piece = None
    /\ game' = select_piece(game, 1, game.units[1].row, game.units[1].col)

NextPieces == SelectProbe

SpecPieces == InitPieces /\ [][NextPieces]_vars

(***************************************************************************)
(* Properties of the piece specification.                                  *)
(***************************************************************************)
Selected == game.units[game.selected_piece]

SelectedPos == <<game.selected_row, game.selected_col>>

\* The k-th cell of the ray from pos in direction d (possibly off the board).
RayCell(pos, d, k) == <<pos[1] + k * d[1], pos[2] + k * d[2]>>

\* The cells of the board on the ray from pos in direction d.
Ray(pos, d) == {c \in Cells : \E k \in 1 .. (BoardSize - 1) : c = RayCell(pos, d, k)}

\* c is nearer to pos than e (both on one ray from pos).
Nearer(pos, c, e) ==
    (c[1] - pos[1]) * (c[1] - pos[1]) + (c[2] - pos[2]) * (c[2] - pos[2])
        < (e[1] - pos[1]) * (e[1] - pos[1]) + (e[2] - pos[2]) * (e[2] - pos[2])

Occupied(c) == game.grid[c] # None

\* The occupied cells of a ray with no occupied cell nearer: none or one.
FirstOccupied(pos, d) ==
    {c \in Ray(pos, d) : Occupied(c) /\ \A e \in Ray(pos, d) : Nearer(pos, e, c) => ~Occupied(e)}

\* The rays along which each sliding class attacks.
RaysOf(cls) ==
    CASE cls = "Bishop" -> DiagonalDirs
      [] cls \in {"Rook", "Tower"} -> OrthogonalDirs
      [] cls = "Queen" -> DiagonalDirs \cup OrthogonalDirs
      [] OTHER -> {}

HoldsLivingEnemy(c) ==
    /\ Occupied(c)
    /\ game.units[game.grid[c]].color # Selected.color
    /\ game.units[game.grid[c]].hp > 0

\* C8: the legal moves of a selected piece of any class hold no occupied
\* cell, and those of a Bishop, Rook or Queen are, ray by ray, exactly the
\* cells nearer than the first occupied cell of the ray.
C8_MovesAvoidOccupied ==
    game.selected_piece # None =>
        /\ \A c \in game.valid_moves : ~Occupied(c)
        /\ Selected.cls \in SlidingClasses =>
              game.valid_moves =
                  UNION {{c \in Ray(SelectedPos, d) :
                             \A e \in FirstOccupied(SelectedPos, d) : Nearer(SelectedPos, c, e)}
                         : d \in RaysOf(Selected.cls)}

\* C9: the attack targets of a selected Bishop, Rook, Queen or Tower lie on
\* its rays, and on each ray they are the first occupied cell if it holds a
\* living enemy and nothing otherwise.
C9_SlidingTargets ==
    (game.selected_piece # None /\ Selected.cls \in SlidingAttackClasses) =>
        /\ game.attack_targets \subseteq UNION {Ray(SelectedPos, d) : d \in RaysOf(Selected.cls)}
        /\ \A d \in RaysOf(Selected.cls) :
              /\ game.attack_targets \cap Ray(SelectedPos, d)
                    = {c \in FirstOccupied(SelectedPos, d) : HoldsLivingEnemy(c)}
              /\ Cardinality(game.attack_targets \cap Ray(SelectedPos, d)) <= 1

\* A sliding piece is selected on a board where the first occupied cell of
\* one of its rays holds an ally and a living enemy stands behind it: the
\* ray holds no target.
C9_Witness ==
    /\ game.selected_piece # None
    /\ Selected.cls \in SlidingAttackClasses
    /\ \E d \in RaysOf(Selected.cls) :
          /\ \E c \in FirstOccupied(SelectedPos, d) :
                game.units[game.grid[c]].color = Selected.color
          /\ \E e \in Ray(SelectedPos, d) : HoldsLivingEnemy(e)
          /\ game.attack_targets \cap Ray(SelectedPos, d) = {}

\* The in-bounds cells at the 8 L-shape offsets of the selected piece.
KnightCells ==
    {c \in Cells : \E o \in KnightOffsets :
        c = <<game.selected_row + o[1], game.selected_col + o[2]>>}

\* C10: the legal moves of a selected Knight are the empty cells among the
\* in-bounds L-shape cells, its attack targets are those that hold a living
\* enemy, and the two sets are disjoint.
C10_KnightSets ==
    (game.selected_piece # None /\ Selected.cls = "Knight") =>
        /\ game.valid_moves = {c \in KnightCells : ~Occupied(c)}
        /\ game.attack_targets = {c \in KnightCells : HoldsLivingEnemy(c)}
        /\ game.valid_moves \cap game.attack_targets = {}

(***************************************************************************)
(* The economy specification: purchases, drags from the reserve and        *)
(* deployments in the Setup phase of round 1, and the start of the battle. *)
(* It runs from the board of setup_initial_board and from a board of       *)
(* living units of the classes of piece.py (EconomyUnits), on which the    *)
(* cards bought have units to act on.                                      *)
(***************************************************************************)
\* The offer of the two shops: per slot the item of White and of Black.
EconomyRolls ==
    <<[kind |-> "piece", w |-> "pawn", b |-> "pawn"],
      [kind |-> "piece", w |-> "pawn", b |-> "pawn"],
      [kind |-> "piece", w |-> "knight", b |-> "rook"],
      [kind |-> "card", w |-> "arrow_volley", b |-> "redemption"],
      [kind |-> "card", w |-> "disarm", b |-> "disarm"]>>

\* Kings and a pawn per side; the Black pawn is left with 1 hit point.
EconomyUnits ==
    <<King(WHITE, 7, 2), Pawn(WHITE, 6, 2),
      King(BLACK, 0, 5), [Pawn(BLACK, 1, 5) EXCEPT !.hp = 1]>>

\* The slot indices a click in a shop rectangle may compute: -1 above the
\* first slot, ShopSlots below the last one.
ShopClickSlots == -1 .. ShopSlots

\* The slots of a reserve rectangle a mouse button press may hit.
ReserveSlots == {0, 1, 2}

\* The cells of the board a click may hit outside a drag.
DeployCells == {<<6, 7>>, <<7, 2>>, <<0, 0>>, <<3, 3>>}

\* The rows and columns get_cell_from_mouse may compute when a drag ends:
\* the mouse may be released above, left of, right of, or on the board.
DropRows == {6, 0, 3, -1}
DropCols == {-1, 0, 7, 8}

InitEconomy ==
    \/ game = NewGame(setup_initial_board, GridOf(setup_initial_board), EconomyRolls, FALSE)
    \/ game = NewGame(EconomyUnits, GridOf(EconomyUnits), EconomyRolls, FALSE)

\* main handles events while the program runs and game.end is false.
Running == ~game.end /\ ~game.crashed

\* A click on a slot of one of the two shop rectangles.
ShopClick ==
    /\ Running
    /\ game.dragging_piece = None
    /\ \E player \in Colors, shop_index \in ShopClickSlots :
          game' = handle_shop_click(game, player, shop_index)

\* MOUSEBUTTONDOWN on a slot of one of the two reserve rectangles.
ReserveDown ==
    /\ Running
    /\ game.dragging_piece = None
    /\ \E player \in Colors, piece_index \in ReserveSlots :
          game' = handle_mouse_down(game, player, piece_index)

\* MOUSEBUTTONUP while a piece is dragged.
MouseUp ==
    /\ Running
    /\ game.dragging_piece # None
    /\ \E row \in DropRows, col \in DropCols : game' = handle_mouse_up(game, row, col)

\* A click on a cell of the board while nothing is dragged.
DeployClick ==
    /\ Running
    /\ game.dragging_piece = None
    /\ \E cell \in DeployCells, rolls \in ShopRolls :
          game' = handle_board_click(game, cell[1], cell[2], rolls)

\* K_b; a key may be pressed while the mouse button is held.
StartBattle ==
    /\ Running
    /\ game.phase \in {SETUP, SHOP}
    /\ game.round_number <= MaxRound
    /\ game' = start_battle_phase(game)

NextEconomy == ShopClick \/ ReserveDown \/ MouseUp \/ DeployClick \/ StartBattle

SpecEconomy == InitEconomy /\ [][NextEconomy]_vars

(***************************************************************************)
(* Claims on the economy specification.                                    *)
(***************************************************************************)
\* A state in which a click on a shop slot reaches buy_piece.
ShopReachable(g) == ~g.end /\ ~g.crashed /\ g.dragging_piece = None /\ g.shop_open

\* What a purchase must leave alone when it fails.
PurchaseFootprint(g) ==
    <<g.white_coins, g.black_coins, g.white_reserve, g.black_reserve,
      g.white_card_inventory, g.black_card_inventory,
      g.white_shop_items, g.black_shop_items, g.grid, g.units>>

\* The acquisition cost of an offered item: the catalog cost of a unit kind,
\* the printed cost of a card.
ItemCost(item) ==
    IF item.kind = "card" THEN item.cost
    ELSE CASE item.type = "pawn" -> 1
           [] item.type = "knight" -> 3
           [] item.type = "bishop" -> 3
           [] item.type = "rook" -> 5
           [] item.type = "queen" -> 9

PurchaseContract(g, player, shop_index) ==
    LET shop_list == ShopOf(g, player)
        valid == 0 <= shop_index /\ shop_index < Len(shop_list)
        bought == buy_piece(g, player, shop_index)
    IN  /\ ~valid => ~bought.ok
        /\ valid =>
             LET cost == ItemCost(shop_list[shop_index + 1])
             IN  /\ bought.ok <=> Coins(g, player) >= cost
                 /\ bought.ok =>
                      /\ Coins(bought.g, player) = Coins(g, player) - cost
                      /\ Coins(bought.g, Other(player)) = Coins(g, Other(player))
        /\ ~bought.ok => PurchaseFootprint(bought.g) = PurchaseFootprint(g)

\* C11: in every state in which a shop slot can be clicked, a purchase
\* succeeds iff the index names an offered item and the buyer's coins are at
\* least its cost; a successful purchase lowers the buyer's coins by exactly
\* the cost and leaves the other side's coins alone; a failed purchase leaves
\* coins, reserves, card inventories, shop offers and the board unchanged.
C11_PurchaseContract ==
    ShopReachable(game) =>
        \A player \in Colors, shop_index \in ShopClickSlots :
            PurchaseContract(game, player, shop_index)

\* White has spent exactly its 3 coins on the Knight, and can still be
\* offered items it can no longer pay; Black has paid a Pawn and is one coin
\* short of its card.
C11_Witness ==
    /\ ShopReachable(game)
    /\ game.white_coins = 0
    /\ \E i \in 1 .. Len(game.white_reserve) :
          game.units[game.white_reserve[i]].piece_type = "knight"
    /\ Len(game.white_shop_items) = ShopSlots - 1
    /\ game.black_coins = 2
    /\ \E i \in 1 .. Len(game.black_shop_items) :
          game.black_shop_items[i].kind = "card" /\ game.black_shop_items[i].cost = 3

(***************************************************************************)
(* The kill specification: a White Queen faces one Black unit of any class *)
(* of piece.py; the kings stand in far corners and are never clicked.      *)
(***************************************************************************)
VictimClasses == {"Pawn", "Knight", "Bishop", "Rook", "Queen", "Tower"}

\* The hit points the White Queen may have been left with.
QueenHp == {10, 4}

\* The Black unit has all its hit points or a single one.
VictimHp(cls) == {NewPiece(cls, BLACK, 4, 6).max_hp, 1}

KillUnits(cls, vhp, qhp) ==
    <<King(WHITE, 7, 0), King(BLACK, 0, 7),
      [Queen(WHITE, 4, 4) EXCEPT !.hp = qhp],
      [NewPiece(cls, BLACK, 4, 6) EXCEPT !.hp = vhp]>>

\* The cells clicked: the Queen, the Black unit, the cell between them and
\* a cell the Queen can step aside to.
KillCells == {<<4, 4>>, <<4, 6>>, <<4, 5>>, <<5, 4>>}

InitKill ==
    \E cls \in VictimClasses, qhp \in QueenHp :
        \E vhp \in VictimHp(cls) :
            game = NewGame(KillUnits(cls, vhp, qhp), GridOf(KillUnits(cls, vhp, qhp)),
                           EconomyRolls, FALSE)

KillClick ==
    /\ ~game.end
    /\ \E cell \in KillCells, rolls \in ShopRolls :
          game' = handle_board_click(game, cell[1], cell[2], rolls)

NextKill == KeyB \/ KeySpace \/ KillClick \/ Draw

SpecKill == InitKill /\ [][NextKill]_vars

\* The reward of the catalog for a destroyed unit: half its acquisition cost
\* rounded down, at least 1.
CatalogReward(cls) ==
    CASE cls = "Pawn" -> 1
      [] cls = "Knight" -> 1
      [] cls = "Bishop" -> 1
      [] cls = "Rook" -> 2
      [] cls = "Queen" -> 4
      [] cls = "Tower" -> 1

\* The pending combat of g destroys its defender, a unit other than a king.
Destroys(g) ==
    /\ g.combat_anim # NoAnim
    /\ LET anim == g.combat_anim[1]
       IN  /\ is_alive(g.units[anim.defender])
           /\ g.units[anim.defender].hp <= g.units[anim.attacker].attack
           /\ g.units[anim.defender].cls # "King"

C12_KillRewardNoTower ==
    [][(/\ Destroys(game)
        /\ game.units[game.combat_anim[1].defender].cls # "Tower"
        /\ \E rolls \in ShopRolls : game' = draw(game, rolls)) =>
          LET anim == game.combat_anim[1]
              killer == game.units[anim.attacker].color
          IN  /\ Coins(game', killer)
                   = Coins(game, killer) + CatalogReward(game.units[anim.defender].cls)
              /\ Coins(game', Other(killer)) = Coins(game, Other(killer))]_vars

(***************************************************************************)
(* Claims on deployment, on the economy specification.                     *)
(***************************************************************************)
\* A state in which the release of the mouse button reaches handle_mouse_up.
Dragging(g) == ~g.end /\ ~g.crashed /\ g.dragging_piece # None

\* The deployment that the release of the mouse button over (row, col) asks for.
Drop(g, row, col) ==
    try_deploy_to_position(g, g.units[g.dragging_piece].color, g.dragging_index, row, col)

ChangedCells(g, h) == {cell \in Cells : g.grid[cell] # h.grid[cell]}

Stats(u) == <<u.piece_type, u.cls, u.color, u.hp, u.max_hp, u.attack>>

\* h is g after the deployment of entry reserve_index of the reserve of player.
DeploymentContract(g, h, player, reserve_index) ==
    LET piece == Reserve(g, player)[reserve_index + 1]
    IN  /\ Reserve(h, player) = RemoveAt(Reserve(g, player), reserve_index + 1)
        /\ Reserve(h, Other(player)) = Reserve(g, Other(player))
        /\ \E cell \in Cells :
              /\ ChangedCells(g, h) = {cell}
              /\ g.grid[cell] = None
              /\ h.grid[cell] = piece
        /\ Stats(h.units[piece]) = Stats(g.units[piece])

\* C13: whenever the release of a dragged unit deploys it, exactly the
\* dragged entry leaves the owner's reserve, the other entries keep their
\* order, the unit stands on exactly one cell that was empty, with its
\* kind, owner, hit points and attack unchanged, and no other cell changes.
C13_DeploymentPlacesOne ==
    Dragging(game) =>
        \A row \in DropRows, col \in DropCols :
            Drop(game, row, col).ok =>
                DeploymentContract(game, handle_mouse_up(game, row, col),
                                   game.units[game.dragging_piece].color,
                                   game.dragging_index)

\* The same, for releases over a cell of the board.
C13_DeploymentOnBoard ==
    Dragging(game) =>
        \A row \in DropRows, col \in DropCols :
            (InBounds(row, col) /\ Drop(game, row, col).ok) =>
                DeploymentContract(game, handle_mouse_up(game, row, col),
                                   game.units[game.dragging_piece].color,
                                   game.dragging_index)

\* What a rejected deployment must leave alone: both reserves, the board
\* and the units with their stored positions.
DeploymentFootprint(g) == <<g.white_reserve, g.black_reserve, g.grid, g.units>>

InZone(player, row) == IF player = WHITE THEN row \in {6, 7} ELSE row \in {0, 1}

\* A deployment of C14: invalid reserve index, row outside the zone of the
\* owner, or an occupied cell of the board.
MustReject(g, player, reserve_index, row, col) ==
    \/ ~(0 <= reserve_index /\ reserve_index < Len(Reserve(g, player)))
    \/ ~InZone(player, row)
    \/ (InBounds(row, col) /\ g.grid[<<row, col>>] # None)

\* C14: in every state the program reaches, a deployment with an invalid
\* reserve index, a row outside the owner's zone or an occupied destination
\* cell is rejected and leaves the reserves, the board and the units'
\* stored positions unchanged; so do the release of a dragged unit and the
\* Setup click that ask for such a deployment.
C14_RejectedDeployment ==
    (~game.end /\ ~game.crashed) =>
        /\ \A player \in Colors, reserve_index \in {-1} \cup ReserveSlots,
              row \in DropRows, col \in DropCols :
                MustReject(game, player, reserve_index, row, col) =>
                    LET res == try_deploy_to_position(game, player, reserve_index, row, col)
                    IN  ~res.ok /\ DeploymentFootprint(res.g) = DeploymentFootprint(game)
        /\ \A row \in DropRows, col \in DropCols :
                (/\ game.dragging_piece # None
                 /\ MustReject(game, game.units[game.dragging_piece].color,
                               game.dragging_index, row, col)) =>
                    DeploymentFootprint(handle_mouse_up(game, row, col))
                        = DeploymentFootprint(game)
        /\ \A cell \in DeployCells :
                (/\ game.phase \in {SETUP, SHOP}
                 /\ MustReject(game, game.current_player, 0, cell[1], cell[2])) =>
                    DeploymentFootprint(handle_deployment_click(game, cell[1], cell[2]))
                        = DeploymentFootprint(game)

\* White drags a unit of its reserve while a unit deployed earlier stands on
\* (6,7): the release over (6,7) and the release over row 3 are rejected,
\* the release over the empty cell (6,0) is not.
C14_Witness ==
    /\ Dragging(game)
    /\ game.units[game.dragging_piece].color = WHITE
    /\ game.grid[<<6, 7>>] # None
    /\ game.grid[<<6, 0>>] = None
    /\ ~Drop(game, 6, 7).ok
    /\ ~Drop(game, 3, 0).ok
    /\ Drop(game, 6, 0).ok

\* C15: the release of a dragged unit over a row or a column outside 0..7
\* is rejected and changes neither the board, nor a reserve, nor the stored
\* position of a unit.
C15_OffBoardRejected ==
    Dragging(game) =>
        \A row \in DropRows, col \in DropCols :
            ~InBounds(row, col) =>
                /\ ~Drop(game, row, col).ok
                /\ DeploymentFootprint(handle_mouse_up(game, row, col))
                      = DeploymentFootprint(game)

\* The same, for the rows outside 0..7 only.
C15_OffBoardRowRejected ==
    Dragging(game) =>
        \A row \in DropRows, col \in DropCols :
            ~(0 <= row /\ row < BoardSize) =>
                /\ ~Drop(game, row, col).ok
                /\ DeploymentFootprint(handle_mouse_up(game, row, col))
                      = DeploymentFootprint(game)

\* The release over a negative column never deploys.
C15_NegativeColumnRejected ==
    Dragging(game) =>
        \A row \in DropRows, col \in DropCols : col < 0 => ~Drop(game, row, col).ok

\* The release over a column right of the board leaves the stored position
\* of the dragged unit unchanged.
C15_RightColumnNoMutation ==
    Dragging(game) =>
        \A row \in DropRows, col \in DropCols :
            col >= BoardSize =>
                handle_mouse_up(game, row, col).units = game.units

\* What selecting, moving and attacking change.
BattleFootprint(g) ==
    <<g.selected_piece, g.selected_row, g.selected_col, g.valid_moves, g.attack_targets,
      g.action_mode, g.combat_anim, g.actions_taken, g.current_player,
      [p \in DOMAIN g.units |-> g.units[p].hp]>>

\* What purchases and deployments change.
EconomyFootprint(g) ==
    <<g.white_coins, g.black_coins, g.white_reserve, g.black_reserve,
      g.white_card_inventory, g.black_card_inventory,
      g.white_shop_items, g.black_shop_items, g.grid, g.units>>

\* Outside Battle a click on the board selects, moves and attacks nothing.
BoardClickGated(g) ==
    g.phase # BATTLE =>
        \A cell \in DeployCells, rolls \in ShopRolls :
            BattleFootprint(handle_board_click(g, cell[1], cell[2], rolls)) = BattleFootprint(g)

\* Outside Setup and Shop, and while the shop is closed, a click on a shop
\* slot buys nothing.
PurchaseGated(g) ==
    (g.phase \notin {SETUP, SHOP} \/ ~g.shop_open) =>
        \A player \in Colors, shop_index \in ShopClickSlots :
            handle_shop_click(g, player, shop_index) = g

\* Outside Setup and Shop no drag starts from a reserve.
DragGated(g) ==
    g.phase \notin {SETUP, SHOP} =>
        \A player \in Colors, piece_index \in ReserveSlots :
            handle_mouse_down(g, player, piece_index) = g

\* Outside Setup and Shop the release of a dragged unit deploys nothing.
ReleaseGated(g) ==
    (g.phase \notin {SETUP, SHOP} /\ g.dragging_piece # None) =>
        \A row \in DropRows, col \in DropCols :
            /\ ~Drop(g, row, col).ok
            /\ EconomyFootprint(handle_mouse_up(g, row, col)) = EconomyFootprint(g)

\* C16: in every state the program reaches, a board click outside Battle
\* selects, moves and attacks nothing, and outside Setup and Shop (for a
\* purchase also while the shop is closed) a shop click, a press on a
\* reserve and the release of a dragged unit change nothing: no purchase
\* and no deployment succeeds during Battle.
C16_PhaseGating ==
    (~game.end /\ ~game.crashed) =>
        /\ BoardClickGated(game)
        /\ PurchaseGated(game)
        /\ DragGated(game)
        /\ ReleaseGated(game)

\* The same, without the release of a dragged unit.
C16_PhaseGatingOfClicks ==
    (~game.end /\ ~game.crashed) =>
        /\ BoardClickGated(game)
        /\ PurchaseGated(game)
        /\ DragGated(game)

\* The amounts of damage an attack can deal: the attack values of piece.py.
DamageAmounts == 0 .. 5

HpInRange(u) == 0 <= u.hp /\ u.hp <= u.max_hp

\* C17: in every state every unit, on the board or in a reserve, has
\* 0 <= hp <= max_hp; take_damage leaves it with max(0, hp - amount), which
\* is 0 again for a unit at 0; and a Redemption bought in that state leaves
\* no unit above max_hp.
C17_HpInRange ==
    /\ \A p \in DOMAIN game.units :
          /\ HpInRange(game.units[p])
          /\ \A amount \in DamageAmounts :
                LET hit == take_damage(game.units[p], amount)
                IN  /\ hit.hp = IF game.units[p].hp > amount
                                THEN game.units[p].hp - amount ELSE 0
                    /\ HpInRange(hit)
                    /\ game.units[p].hp = 0 => hit = game.units[p]
    /\ \A player \in Colors :
          \A p \in DOMAIN game.units :
              HpInRange(apply_effect(game, "redemption", player).units[p])

\* Black has bought Redemption on the board of living units: the White Pawn
\* on a white tile was at max_hp and stays there, the Black Pawn on a white
\* tile has gained a hit point, and the kings on black tiles have lost one.
C17_Witness ==
    /\ Len(game.units) >= 4
    /\ game.units[2].cls = "Pawn" /\ game.units[2].hp = 3 /\ game.units[2].max_hp = 3
    /\ game.units[4].cls = "Pawn" /\ game.units[4].hp = 2
    /\ game.units[1].hp = 11 /\ game.units[3].hp = 11
    /\ game.black_coins = 0
    /\ \A i \in 1 .. Len(game.black_shop_items) : game.black_shop_items[i].type # "redemption"

\* Every occupied cell of the board holds a living unit.
NoDeadOnBoard(g) == \A c \in Cells : g.grid[c] # None => is_alive(g.units[g.grid[c]])

C18_NoDeadAfterCard ==
    \A player \in Colors, card_type \in {"arrow_volley", "redemption"} :
        NoDeadOnBoard(apply_effect(game, card_type, player))

\* The attack half of C18 when the defender still stands on the cell it was
\* attacked on.
C18_NoDeadWhenDefenderStays ==
    [][(/\ game.combat_anim # NoAnim
        /\ NoDeadOnBoard(game)
        /\ game.grid[game.combat_anim[1].defender_pos] = game.combat_anim[1].defender
        /\ \E rolls \in ShopRolls : game' = draw(game, rolls)) => NoDeadOnBoard(game')]_vars

\* The state TFTGame.__init__ leaves: the first state of a new game.
NewGameState(g) ==
    g = NewGame(setup_initial_board, GridOf(setup_initial_board), EconomyRolls, FALSE)

OnBoardOf(g, color, piece_type) ==
    {p \in OnBoard(g) : g.units[p].color = color /\ g.units[p].piece_type = piece_type}

\* The coins, reserves, inventories and pre-placed units of C19.
InitialEconomyAndUnits(g) ==
    /\ g.white_coins = 3 /\ g.black_coins = 3
    /\ g.white_reserve = <<>> /\ g.black_reserve = <<>>
    /\ g.white_card_inventory = <<>> /\ g.black_card_inventory = <<>>
    /\ \A color \in Colors :
          /\ Cardinality(OnBoardOf(g, color, "king")) = 1
          /\ Cardinality(OnBoardOf(g, color, "pawn")) >= 1
          /\ OnBoard(g) = UNION {OnBoardOf(g, c, t) : c \in Colors, t \in {"king", "pawn"}}

\* The catalog stats of C19: King 12 / 2, Pawn 3 / 1, every unit alive.
InitialStats(g) ==
    \A p \in OnBoard(g) :
        /\ is_alive(g.units[p])
        /\ g.units[p].piece_type = "king" =>
              g.units[p].hp = 12 /\ g.units[p].max_hp = 12 /\ g.units[p].attack = 2
        /\ g.units[p].piece_type = "pawn" =>
              g.units[p].hp = 3 /\ g.units[p].max_hp = 3 /\ g.units[p].attack = 1

\* C19: in the first state of a new game both sides have 3 coins, empty
\* reserves and empty card inventories, one king and some pawns each on the
\* board and nothing else, every unit alive with the stats of its kind
\* (King 12 / 2, Pawn 3 / 1), and is_king_alive holds for both sides.
C19_InitialState ==
    NewGameState(game) =>
        /\ InitialEconomyAndUnits(game)
        /\ InitialStats(game)
        /\ \A color \in Colors : is_king_alive(game, color)

\* The same, without the stats and the liveness of the units.
C19_InitialEconomy == NewGameState(game) => InitialEconomyAndUnits(game)

\* The catalog of C20: hit points and attack of the kinds the shop sells.
CatalogHp(piece_type) ==
    CASE piece_type = "pawn" -> 3
      [] piece_type = "knight" -> 6
      [] piece_type = "bishop" -> 5
      [] piece_type = "rook" -> 8
      [] piece_type = "queen" -> 10

CatalogAttack(piece_type) ==
    CASE piece_type = "pawn" -> 1
      [] piece_type = "knight" -> 3
      [] piece_type = "bishop" -> 2
      [] piece_type = "rook" -> 4
      [] piece_type = "queen" -> 5

KindClass(piece_type) ==
    CASE piece_type = "pawn" -> "Pawn"
      [] piece_type = "knight" -> "Knight"
      [] piece_type = "bishop" -> "Bishop"
      [] piece_type = "rook" -> "Rook"
      [] piece_type = "queen" -> "Queen"

\* The positions of a reserve; its units are the purchased units not yet
\* deployed.
InReserve(g, player) == 1 .. Len(Reserve(g, player))

PurchasedOwned(g) ==
    \A player \in Colors : \A i \in InReserve(g, player) :
        g.units[Reserve(g, player)[i]].color = player

PurchasedStats(g) ==
    \A player \in Colors : \A i \in InReserve(g, player) :
        LET u == g.units[Reserve(g, player)[i]]
        IN  /\ is_alive(u)
            /\ u.hp = u.max_hp
            /\ u.hp = CatalogHp(u.piece_type)
            /\ u.attack = CatalogAttack(u.piece_type)

\* Deployed on a free cell of the first column of its zone, a purchased
\* unit moves and attacks as a unit of the class of its kind does there.
PurchasedPattern(g) ==
    \A player \in Colors : \A i \in InReserve(g, player) :
        LET p == Reserve(g, player)[i]
            row == IF player = WHITE THEN 6 ELSE 1
            res == try_deploy_to_position(g, player, i - 1, row, 0)
            kind == [res.g.units EXCEPT ![p] =
                        NewPiece(KindClass(g.units[p].piece_type), player, row, 0)]
        IN  res.ok =>
              /\ get_valid_moves(res.g.units, res.g.grid, p)
                    = get_valid_moves(kind, res.g.grid, p)
              /\ get_attack_targets(res.g.units, res.g.grid, p)
                    = get_attack_targets(kind, res.g.grid, p)

\* C20: every purchased unit waiting in a reserve belongs to the side whose
\* reserve it is in, is alive with hp = max_hp and the hit points and
\* attack of its kind (Pawn 3/1, Knight 6/3, Bishop 5/2, Rook 8/4, Queen
\* 10/5), and once deployed moves and attacks as its kind does.
C20_PurchasedUnit ==
    (~game.end /\ ~game.crashed) =>
        PurchasedOwned(game) /\ PurchasedStats(game) /\ PurchasedPattern(game)

\* The ownership part alone.
C20_PurchasedOwned == (~game.end /\ ~game.crashed) => PurchasedOwned(game)

\* The pattern part alone.
C20_PurchasedPattern == (~game.end /\ ~game.crashed) => PurchasedPattern(game)

(***************************************************************************)
(* The game specification: purchases, deployments by click and battles     *)
(* together, over several rounds.  It runs from the board of               *)
(* setup_initial_board and from boards of living units (GameUnits) on      *)
(* which a king may be one hit point from death.                           *)
(***************************************************************************)
\* The hit points <<White King, Black King>> may have been left with.
GameKingHp == {<<12, 1>>, <<1, 12>>, <<1, 1>>}

\* Kings on black tiles, a White Knight that reaches the Black Pawn.
GameUnits(whp, bhp) ==
    <<[King(WHITE, 7, 2) EXCEPT !.hp = whp],
      [King(BLACK, 0, 5) EXCEPT !.hp = bhp],
      Knight(WHITE, 3, 4),
      Pawn(BLACK, 1, 5)>>

\* The cells clicked: the Knight, the Black Pawn and the cell in front of
\* it, and a free cell of White's zone.
GameCells == {<<3, 4>>, <<1, 5>>, <<2, 5>>, <<6, 0>>}

\* The shop slots clicked: the first one (a Pawn) and the fourth one (a card).
GameSlots == {0, 3}

\* Battles are started in the rounds up to this one.
GameRounds == 1

InitGame ==
    \/ game = NewGame(setup_initial_board, GridOf(setup_initial_board), EconomyRolls, FALSE)
    \/ \E hp \in GameKingHp :
          game = NewGame(GameUnits(hp[1], hp[2]), GridOf(GameUnits(hp[1], hp[2])),
                         EconomyRolls, FALSE)

\* A click on a slot of one of the two shop rectangles.
GameShopClick ==
    /\ ~game.end
    /\ \E player \in Colors, shop_index \in GameSlots :
          game' = handle_shop_click(game, player, shop_index)

\* A click on a cell of the board: a deployment in Setup and Shop, a
\* selection, a move or an attack in Battle.
GameClick ==
    /\ ~game.end
    /\ \E cell \in GameCells, rolls \in ShopRolls :
          game' = handle_board_click(game, cell[1], cell[2], rolls)

\* K_b while the phase is Setup or Shop.
GameKeyB ==
    /\ ~game.end
    /\ game.phase \in {SETUP, SHOP}
    /\ game.round_number <= GameRounds
    /\ game' = start_battle_phase(game)

NextGame == GameKeyB \/ KeySpace \/ GameShopClick \/ GameClick \/ Draw

SpecGame == InitGame /\ [][NextGame]_vars

(***************************************************************************)
(* Claims on the game specification.                                       *)
(***************************************************************************)
CellsOf(g, p) == {c \in Cells : g.grid[c] = p}

\* No unit stands on two cells (a cell holds one unit id or None).
AtMostOneCell(g) == \A p \in DOMAIN g.units : Cardinality(CellsOf(g, p)) <= 1

\* h is g after one unit went from its cell to an empty one.
IsMove(g, h) ==
    \E from \in Cells, to \in Cells :
        /\ from # to
        /\ g.grid[from] # None
        /\ g.grid[to] = None
        /\ h.grid = [g.grid EXCEPT ![from] = None, ![to] = g.grid[from]]

\* h is g after one unit that stood on no cell was put on an empty one.
IsPlacement(g, h) ==
    \E to \in Cells :
        /\ g.grid[to] = None
        /\ h.grid[to] # None
        /\ CellsOf(g, h.grid[to]) = {}
        /\ h.grid = [g.grid EXCEPT ![to] = h.grid[to]]

\* C21: no unit ever stands on two cells, and a click on the board leaves
\* the board as it is, or takes one unit from its cell to an empty cell,
\* clearing the origin in the same step, or (outside Battle) puts one unit
\* of a reserve on an empty cell; no unit is overwritten and none is lost.
C21_OneCellPerUnit ==
    [][/\ AtMostOneCell(game)
       /\ AtMostOneCell(game')
       /\ \A cell \in GameCells, rolls \in ShopRolls :
             game' = handle_board_click(game, cell[1], cell[2], rolls) =>
                \/ game'.grid = game.grid
                \/ game.phase = BATTLE /\ IsMove(game, game')
                \/ game.phase # BATTLE /\ IsPlacement(game, game')]_vars

\* The Black Pawn has moved from (1,5) to (2,5) in a battle and a purchased
\* unit has been deployed on (6,0).
C21_Witness ==
    /\ Len(game.units) > 4
    /\ game.units[4].cls = "Pawn"
    /\ CellsOf(game, 4) = {<<2, 5>>}
    /\ game.grid[<<1, 5>>] = None
    /\ game.grid[<<6, 0>>] > 4

\* C22: in every state the coins of each side are a non-negative integer.
C22_CoinsNonNegative ==
    \A color \in Colors : Coins(game, color) \in Nat

\* Both sides have spent their 3 coins on a card, Black's Redemption has
\* killed the White King, and the first action of the battle has ended the
\* game: round income for both, win bonus for Black.
C22_Witness ==
    /\ game.end
    /\ game.white_coins = RoundIncome
    /\ game.black_coins = WinBonus + RoundIncome
    /\ Len(game.white_shop_items) = ShopSlots - 1
    /\ Len(game.black_shop_items) = ShopSlots - 1

\* The king of a side as a unit, on the board or not: the units are never
\* deleted from game.units, only taken off the grid.
KingUnits(g, color) ==
    {p \in 1 .. Len(g.units) : g.units[p].cls = "King" /\ g.units[p].color = color}

\* An accepted move: make_move ends with check_battle_end.
MoveChecked(g, h) ==
    /\ g.selected_piece # None
    /\ g.action_mode = "move"
    /\ \E cell \in g.valid_moves, rolls \in ShopRolls :
          /\ cell # <<g.selected_row, g.selected_col>>
          /\ h = make_move(g, g.selected_row, g.selected_col, cell[1], cell[2], rolls)

\* The application of a combat: draw ends with check_battle_end as well.
DrawChecked(g, h) ==
    /\ g.combat_anim # NoAnim
    /\ \E rolls \in ShopRolls : h = draw(g, rolls)

\* The reward a draw step credits to `color` for the unit the pending combat
\* destroys (0 when it destroys nothing or the attacker is of the other side).
PendingReward(g, color) ==
    LET anim == g.combat_anim[1]
    IN  IF /\ g.units[anim.attacker].color = color
           /\ g.units[anim.defender].hp <= g.units[anim.attacker].attack
        THEN Coins(handle_piece_death(g, anim.defender, color), color) - Coins(g, color)
        ELSE 0

\* The step from g to h has ended the match with `color` as the winner: the
\* win bonus is credited to that side only, the round income to both.
\* reward(c) is what the step credits to side c before the victory check.
WonBy(g, h, color, reward(_)) ==
    /\ h.end
    /\ h.phase # BATTLE
    /\ Coins(h, color) = Coins(g, color) + reward(color) + WinBonus + RoundIncome
    /\ Coins(h, Other(color)) = Coins(g, Other(color)) + reward(Other(color)) + RoundIncome

\* The step from g to h is a victory check of a battle, and it has ended the
\* match with `color` as the winner.
CheckWonBy(g, h, color) ==
    LET NoReward(c) == 0
        Reward(c) == PendingReward(g, c)
    IN  /\ MoveChecked(g, h) => WonBy(g, h, color, NoReward)
        /\ (DrawChecked(g, h) /\ ~MoveChecked(g, h)) => WonBy(g, h, color, Reward)

VictoryChecked(g, h) == MoveChecked(g, h) \/ DrawChecked(g, h)

\* A bought card takes the hit points of a living king of `color` to 0.
CardKillsKing(g, h, color) ==
    /\ g.phase # BATTLE
    /\ is_king_alive(g, color)
    /\ \E player \in Colors, shop_index \in GameSlots :
          h = handle_shop_click(g, player, shop_index)
    /\ \E k \in KingUnits(g, color) : h.units[k].hp = 0

C23_OneKingKilled ==
    [][/\ \A color \in Colors :
             CardKillsKing(game, game', color) => ~is_king_alive(game', color)
       /\ (game.phase = BATTLE /\ ~game.end /\ VictoryChecked(game, game')) =>
             \A color \in Colors :
                (~is_king_alive(game, color) /\ is_king_alive(game, Other(color)))
                   => CheckWonBy(game, game', Other(color))]_vars

(***************************************************************************)
(* The game with its log observed: the fixture of SpecGame with both kings *)
(* at full hit points, battles of moves, and the clicks of Setup that are  *)
(* answered with a message.                                                *)
(***************************************************************************)
LogRounds == 2

\* The Knight's cell and one of its moves, the Pawn's cell and the two cells
\* ahead of it.
LogCells == {<<3, 4>>, <<5, 3>>, <<1, 5>>, <<2, 5>>, <<3, 5>>}

InitLog ==
    game = NewGame(GameUnits(12, 12), GridOf(GameUnits(12, 12)), EconomyRolls, TRUE)

LogKeyB ==
    /\ ~game.end
    /\ game.phase \in {SETUP, SHOP}
    /\ game.round_number <= LogRounds
    /\ game' = start_battle_phase(game)

LogClick ==
    /\ ~game.end
    /\ \E cell \in LogCells, rolls \in ShopRolls :
          game' = handle_board_click(game, cell[1], cell[2], rolls)

NextLog == LogKeyB \/ LogClick

SpecLog == InitLog /\ [][NextLog]_vars

\* The most messages one step of SpecLog appends: the move that ends a
\* round logs the end of the round, the next round and the turn.
MaxStepMessages == 3

\* `new` is `old` after k appends: the last k entries are the appended ones,
\* the entries before them are the newest entries of `old` in their order,
\* and entries are dropped only from the front and only beyond the capacity.
Shifted(old, new, k) ==
    LET kept == Len(new) - k
    IN  /\ Len(new) = Min(LogCapacity, Len(old) + k)
        /\ kept >= 0
        /\ \A i \in 1 .. kept : new[i] = old[Len(old) - kept + i]

\* What one call of add_to_log does to the log of g.
AppendContract(g, message) ==
    LET old == g.game_log
        new == add_to_log(g, message).game_log
    IN  /\ Len(new) <= LogCapacity
        /\ new[Len(new)] = message
        /\ IF Len(old) < LogCapacity
           THEN new = Append(old, message)
           ELSE /\ Len(new) = LogCapacity
                /\ \A i \in 1 .. (LogCapacity - 1) : new[i] = old[i + 1]

\* C24: the log never holds more than 8 messages; an append to a full log
\* evicts exactly the oldest message, keeps the order of the others and puts
\* the new message last, in every step of the game and for every call of
\* add_to_log in a reachable state.
C24_LogBounded ==
    [][/\ Len(game'.game_log) <= LogCapacity
       /\ \E k \in 0 .. MaxStepMessages : Shifted(game.game_log, game'.game_log, k)
       /\ AppendContract(game', "Position is occupied!")]_vars

\* The log is full and its oldest messages have been evicted: the message
\* that opened the first battle is gone, the second battle has begun.
C24_Witness ==
    /\ Len(game.game_log) = LogCapacity
    /\ \A i \in 1 .. LogCapacity : game.game_log[i] # "Round 1 Battle begins!"
    /\ \E i \in 1 .. LogCapacity : game.game_log[i] = "Round 2 Battle begins!"

CardKinds == {"arrow_volley", "redemption", "lightning", "Tower Defense"}

\* How many Tower Defense cards are applied at most.
MaxTowerCards == 1

\* Both kings on black tiles with 2 hit points, a pawn per side on a white
\* tile with one hit point less than its maximum.
CardsUnits ==
    <<[King(WHITE, 7, 2) EXCEPT !.hp = 2], [King(BLACK, 0, 5) EXCEPT !.hp = 2],
      [Pawn(BLACK, 1, 3) EXCEPT !.hp = 2], [Pawn(WHITE, 6, 2) EXCEPT !.hp = 2]>>

\* Results of random.sample(range(64), 5): the cells of the White King and
\* the Black Pawn with three empty cells; the cells of the Black King, the
\* White Pawn and a cell a Tower is deployed on, with two empty cells; five
\* cells that stay empty.
LightningSamples == {{58, 11, 0, 63, 36}, {5, 50, 59, 1, 36}, {16, 17, 18, 19, 20}}

\* The cells a dragged unit is released over: one per deployment zone with
\* an enemy unit in its column, and one outside both zones.
CardsDropCells == {<<7, 3>>, <<0, 2>>, <<4, 4>>}

InitCards ==
    game = NewGame(CardsUnits, GridOf(CardsUnits), EconomyRolls, FALSE)

\* Card.apply_effect of a card of each type, for either side.
CardsApply ==
    /\ Running
    /\ game.phase # BATTLE
    /\ game.dragging_piece = None
    /\ \E player \in Colors, card_type \in CardKinds :
          \E numbers \in IF card_type = "lightning" THEN LightningSamples ELSE {{}} :
             /\ card_type = "Tower Defense" =>
                   Len(game.units) < Len(CardsUnits) + 2 * MaxTowerCards
             /\ game' = apply_effect_with(game, card_type, player, numbers)

\* MOUSEBUTTONDOWN on the first slot of a reserve rectangle.
CardsDrag ==
    /\ Running
    /\ game.dragging_piece = None
    /\ \E player \in Colors : game' = handle_mouse_down(game, player, 0)

\* MOUSEBUTTONUP over a cell of the board while a unit is dragged.
CardsDrop ==
    /\ Running
    /\ game.dragging_piece # None
    /\ \E cell \in CardsDropCells : game' = handle_mouse_up(game, cell[1], cell[2])

NextCards == CardsApply \/ CardsDrag \/ CardsDrop

SpecCards == InitCards /\ [][NextCards]_vars

\* The reserves, coins and inventories of both sides.
Holdings(g) ==
    <<g.white_reserve, g.black_reserve, g.white_coins, g.black_coins,
      g.white_card_inventory, g.black_card_inventory>>

\* From g to h exactly the units of `gone` have left the board.
Removed(g, h, gone) ==
    \A cell \in Cells :
        h.grid[cell] = IF g.grid[cell] \in gone THEN None ELSE g.grid[cell]

\* The units of h that stand on the board of g with no hit points left.
Fallen(g, h) == {p \in OnBoard(g) : h.units[p].hp = 0}

\* The living units of g on the cells numbered by `numbers`.
Struck(g, numbers) ==
    {p \in OnBoard(g) :
        /\ is_alive(g.units[p])
        /\ \E i \in numbers : g.grid[<<i \div 8, i % 8>>] = p}

\* What Lightning on the cells of `numbers` changes from g to h.
LightningContract(g, h, numbers) ==
    /\ Cardinality(numbers) = 5
    /\ Len(h.units) = Len(g.units)
    /\ \A p \in DOMAIN g.units :
          IF p \in Struck(g, numbers)
          THEN h.units[p] = [g.units[p] EXCEPT !.hp = IF @ > 3 THEN @ - 3 ELSE 0]
          ELSE h.units[p] = g.units[p]
    /\ Holdings(h) = Holdings(g)
    /\ Removed(g, h, Fallen(g, h))

\* C26: Lightning takes exactly 3 hit points (not below 0) from each living
\* unit that stands on one of its 5 distinct cells, changes no other unit,
\* no reserve and no coins, and removes from the board the units left with
\* 0 hit points.
C26_Lightning ==
    [][\A player \in Colors, numbers \in LightningSamples :
          game' = apply_effect_with(game, "lightning", player, numbers) =>
             LightningContract(game, game', numbers)]_vars

\* Lightning has struck the cells of the Black King, the White Pawn and a
\* deployed White Tower: the King and the Pawn are gone, the Tower has 5 of
\* its 8 hit points.
C26_Witness ==
    /\ game.grid[<<0, 5>>] = None
    /\ game.grid[<<6, 2>>] = None
    /\ game.units[2].hp = 0
    /\ game.grid[<<7, 3>>] # None
    /\ game.units[game.grid[<<7, 3>>]].cls = "Tower"
    /\ game.units[game.grid[<<7, 3>>]].hp = 5
    /\ game.units[1].hp = 2

\* What Arrow Volley activated by `player` changes from g to h.
ArrowVolleyContract(g, h, player) ==
    /\ Len(h.units) = Len(g.units)
    /\ \A p \in DOMAIN g.units :
          IF p \in OnBoard(g) /\ g.units[p].hp > 0 /\ g.units[p].color = Other(player)
          THEN h.units[p] = [g.units[p] EXCEPT !.hp = @ - 1]
          ELSE h.units[p] = g.units[p]
    /\ Holdings(h) = Holdings(g)
    /\ Removed(g, h, Fallen(g, h))

StandsOn(g, p) == {cell \in Cells : g.grid[cell] = p}

\* What Redemption changes from g to h, whichever side activates it.
RedemptionContract(g, h) ==
    /\ Len(h.units) = Len(g.units)
    /\ \A p \in DOMAIN g.units :
          IF p \in OnBoard(g) /\ g.units[p].hp > 0
          THEN \A cell \in StandsOn(g, p) :
                  IF (cell[1] + cell[2]) % 2 = 1
                  THEN h.units[p] = [g.units[p] EXCEPT !.hp = @ - 1]
                  ELSE h.units[p] = [g.units[p] EXCEPT
                                        !.hp = IF @ < g.units[p].max_hp THEN @ + 1 ELSE @]
          ELSE h.units[p] = g.units[p]
    /\ Holdings(h) = Holdings(g)
    /\ Removed(g, h, Fallen(g, h))

\* C28: Redemption takes exactly 1 hit point from every living unit on a
\* cell with row + col odd and gives exactly 1 hit point, capped at max_hp,
\* to every living unit on a cell with row + col even, whoever owns the unit
\* and whoever activates the card; the units left with 0 hit points are
\* removed from the board.
C28_Redemption ==
    [][\A player \in Colors :
          game' = apply_effect_with(game, "redemption", player, {}) =>
             RedemptionContract(game, game')]_vars

\* Two Redemptions: both kings (2 hit points, black tiles) are gone, both
\* pawns (2 of 3 hit points, white tiles) have gained one hit point and are
\* held at their maximum.
C28_Witness ==
    /\ game.units[1].hp = 0 /\ game.grid[<<7, 2>>] = None
    /\ game.units[2].hp = 0 /\ game.grid[<<0, 5>>] = None
    /\ game.units[3].hp = 3 /\ game.grid[<<1, 3>>] = 3
    /\ game.units[4].hp = 3 /\ game.grid[<<6, 2>>] = 4

\* The first occupied cell from `cell` in direction d: a set of one cell,
\* or the empty set.
FirstUnitAhead(g, cell, d) ==
    LET ahead == {i \in 1 .. (BoardSize - 1) :
                    /\ <<cell[1] + i * d[1], cell[2] + i * d[2]>> \in Cells
                    /\ g.grid[<<cell[1] + i * d[1], cell[2] + i * d[2]>>] # None}
    IN  {<<cell[1] + i * d[1], cell[2] + i * d[2]>> :
            i \in {k \in ahead : \A o \in ahead : k <= o}}

\* The attack targets of a Rook of `color` on `cell`: in each of the four
\* orthogonal directions the first occupied cell, if a living enemy holds it.
RookTargets(g, cell, color) ==
    {t \in UNION {FirstUnitAhead(g, cell, d) : d \in {<<-1, 0>>, <<1, 0>>, <<0, -1>>, <<0, 1>>}} :
        /\ g.units[g.grid[t]].color # color
        /\ g.units[g.grid[t]].hp > 0}

\* What Tower Defense activated by `player` changes from g to h.
TowerContract(g, h, player) ==
    LET n == Len(g.units)
    IN  /\ Len(h.units) = n + 2
        /\ \A p \in 1 .. n : h.units[p] = g.units[p]
        /\ \A p \in {n + 1, n + 2} :
              /\ h.units[p].cls = "Tower"
              /\ h.units[p].color = player
              /\ h.units[p].max_hp = 8 /\ h.units[p].hp = 8 /\ h.units[p].attack = 4
        /\ Reserve(h, player) = Reserve(g, player) \o <<n + 1, n + 2>>
        /\ Reserve(h, Other(player)) = Reserve(g, Other(player))
        /\ h.grid = g.grid
        /\ h.white_coins = g.white_coins /\ h.black_coins = g.black_coins

\* Every Tower on the board of g has no move, and the attack targets of a
\* Rook on its cell.
DeployedTowers(g) ==
    \A cell \in Cells :
        (g.grid[cell] # None /\ g.units[g.grid[cell]].cls = "Tower") =>
            /\ get_valid_moves(g.units, g.grid, g.grid[cell]) = {}
            /\ get_attack_targets(g.units, g.grid, g.grid[cell])
                  = RookTargets(g, cell, g.units[g.grid[cell]].color)

Inventory(g, player) ==
    IF player = WHITE THEN g.white_card_inventory ELSE g.black_card_inventory

\* The click on slot shop_index of the shop of `player` is a successful
\* purchase of a card: the slot holds a card the buyer can pay.
CardPurchase(g, player, shop_index) ==
    /\ ShopReachable(g)
    /\ 0 <= shop_index /\ shop_index < Len(ShopOf(g, player))
    /\ ShopOf(g, player)[shop_index + 1].kind = "card"
    /\ Coins(g, player) >= ShopOf(g, player)[shop_index + 1].cost

\* The card has been applied in the step from g to h and is not stored.
AppliedNotStored(g, h, item, player) ==
    /\ h.units = apply_effect_with(g, item.type, player, {}).units
    /\ h.grid = apply_effect_with(g, item.type, player, {}).grid
    /\ h.white_card_inventory = g.white_card_inventory
    /\ h.black_card_inventory = g.black_card_inventory

\* The card has been appended to the buyer's inventory in the step from g to
\* h, and the board is as it was.
StoredNotApplied(g, h, item, player) ==
    /\ Inventory(h, player) = Append(Inventory(g, player), item)
    /\ Inventory(h, Other(player)) = Inventory(g, Other(player))
    /\ h.units = g.units
    /\ h.grid = g.grid

\* C30: a successful purchase of a card has exactly one of two outcomes: a
\* card marked immediate is applied in the same step and is not stored; a
\* card not marked immediate is appended to the buyer's inventory and the
\* board does not change.  In both cases the buyer pays the cost of the card
\* and the slot leaves the shop, so no coins are paid for a card that is
\* neither applied nor stored.
C30_CardPurchaseOutcome ==
    [][\A player \in Colors, shop_index \in ShopClickSlots :
          (/\ CardPurchase(game, player, shop_index)
           /\ game' = handle_shop_click(game, player, shop_index)) =>
             LET item == ShopOf(game, player)[shop_index + 1]
             IN  /\ Coins(game', player) = Coins(game, player) - item.cost
                 /\ Coins(game', Other(player)) = Coins(game, Other(player))
                 /\ ShopOf(game', player) = RemoveAt(ShopOf(game, player), shop_index + 1)
                 /\ IF item.immediate
                    THEN /\ item.type \in {"arrow_volley", "redemption"}
                         /\ AppliedNotStored(game, game', item, player)
                    ELSE StoredNotApplied(game, game', item, player)]_vars

\* White has paid its 3 coins for Arrow Volley, which is applied and not
\* stored (the Black King has lost a hit point, the Black Pawn of 1 hit
\* point is gone); Black has paid its 3 coins for Disarm, which is stored.
C30_Witness ==
    /\ game.white_coins = 0
    /\ game.units[3].hp = game.units[3].max_hp - 1
    /\ game.grid[<<1, 5>>] = None
    /\ game.white_card_inventory = <<>>
    /\ game.black_coins = 0
    /\ Len(game.black_card_inventory) = 1
    /\ game.black_card_inventory[1].type = "disarm"
    /\ game.units[1].hp = game.units[1].max_hp

(***************************************************************************)
(* The shop over the rounds: the offers random.choices and random.choice   *)
(* can draw, purchases, a deployment cell, and battles of knight moves that *)
(* carry the game to the round of the next shop generation.                *)
(***************************************************************************)
\* A list of piece types that holds the King as well.
piece_types_with_king == <<"pawn", "knight", "bishop", "rook", "queen", "king">>

\* generate_shop: piece_types, the population of random.choices.
piece_types == <<"pawn", "knight", "bishop", "rook", "queen">>

\* generate_shop: the population of random.choice for a card slot.
card_choices == <<"arrow_volley", "disarm", "redemption">>

\* Outcomes of the draws of one generation: every slot the second, or every
\* slot the last, of piece_types for both sides; or a card slot followed by
\* four piece slots.
ShopDraws ==
    {[i \in 1 .. ShopSlots |-> [kind |-> "piece", w |-> piece_types[t], b |-> piece_types[t]]] :
        t \in {2, Len(piece_types)}}
    \cup
    {[i \in 1 .. ShopSlots |->
        IF i = 1 THEN [kind |-> "card", w |-> card_choices[2], b |-> card_choices[2]]
                 ELSE [kind |-> "piece", w |-> piece_types[2], b |-> piece_types[2]]]}

\* The last round whose battle is started.
ShopRounds == 3

\* Kings with 2 hit points in their corners and a Knight per side.
ShopUnits ==
    <<[King(WHITE, 7, 2) EXCEPT !.hp = 2], [King(BLACK, 0, 5) EXCEPT !.hp = 2],
      Knight(WHITE, 3, 4), Knight(BLACK, 2, 2)>>

\* The cells of the two Knights, a move of each, and a cell of White's zone.
ShopCells == {<<3, 4>>, <<5, 3>>, <<2, 2>>, <<4, 1>>, <<6, 0>>}

InitShop ==
    \E rolls \in ShopDraws : game = NewGame(ShopUnits, GridOf(ShopUnits), rolls, FALSE)

\* A click on the first slot of one of the two shop rectangles.
ShopBuy ==
    /\ ~game.end
    /\ \E player \in Colors : game' = handle_shop_click(game, player, 0)

\* A click on a cell of the board; the draws are those of the generation
\* that the end of a round may run.
ShopBoardClick ==
    /\ ~game.end
    /\ \E cell \in ShopCells, rolls \in ShopDraws :
          game' = handle_board_click(game, cell[1], cell[2], rolls)

ShopKeyB ==
    /\ ~game.end
    /\ game.phase \in {SETUP, SHOP}
    /\ game.round_number <= ShopRounds
    /\ game' = start_battle_phase(game)

NextShop == ShopBuy \/ ShopBoardClick \/ ShopKeyB

SpecShop == InitShop /\ [][NextShop]_vars

\* The units of `color` in reserve or on the board that are kings / Towers.
KingsOnBoard(g, color) ==
    {p \in OnBoard(g) : g.units[p].piece_type = "king" /\ g.units[p].color = color}

ReserveUnits(g) ==
    {g.white_reserve[i] : i \in DOMAIN g.white_reserve}
        \cup {g.black_reserve[i] : i \in DOMAIN g.black_reserve}

\* No slot of the offer holds a King or a Tower: every slot is a piece of
\* one of the five purchasable kinds or one of the three cards.
OfferClean(offer) ==
    \A i \in DOMAIN offer :
        \/ offer[i].kind = "piece" /\ offer[i].type \in {"pawn", "knight", "bishop", "rook", "queen"}
        \/ offer[i].kind = "card" /\ offer[i].type \in {"arrow_volley", "disarm", "redemption"}

\* C31: right after a shop generation both offers have exactly 5 slots; no
\* offer ever holds a King or a Tower; each side has at most one king on the
\* board and no King (and no Tower) in reserve.
C31_ShopOffers ==
    [][/\ game'.shop_generations # game.shop_generations =>
             Len(game'.white_shop_items) = 5 /\ Len(game'.black_shop_items) = 5
       /\ OfferClean(game'.white_shop_items) /\ OfferClean(game'.black_shop_items)
       /\ \A color \in Colors : Cardinality(KingsOnBoard(game', color)) <= 1
       /\ \A p \in ReserveUnits(game') :
             game'.units[p].piece_type # "king" /\ game'.units[p].cls # "Tower"]_vars

\* The shop has been generated a second time, at the start of round 4,
\* after purchases: both offers are full again and a side holds a purchased
\* unit in reserve.
C31_Witness ==
    /\ game.shop_generations = 2
    /\ game.round_number = 4
    /\ Len(game.white_shop_items) = ShopSlots /\ Len(game.black_shop_items) = ShopSlots
    /\ ReserveUnits(game) # {}

\* `after` is `before` without its entry at position k (from 1): one entry
\* less, the others in their order.
WithoutSlot(before, after, k) ==
    /\ Len(after) = Len(before) - 1
    /\ \A i \in 1 .. Len(after) : after[i] = (IF i < k THEN before[i] ELSE before[i + 1])

\* What a successful purchase of slot shop_index by `player` does to the
\* two offers of g.
OfferAfterPurchase(g, player, shop_index) ==
    LET bought == buy_piece(g, player, shop_index)
    IN  bought.ok =>
           /\ WithoutSlot(ShopOf(g, player), ShopOf(bought.g, player), shop_index + 1)
           /\ ShopOf(bought.g, Other(player)) = ShopOf(g, Other(player))

CombatApplied(g, h) ==
    /\ g.combat_anim # NoAnim
    /\ \E rolls \in ShopRolls : h = draw(g, rolls)

\* Unit p is in h what it is in g, and where it is in g.
Untouched(g, h, p) == h.units[p] = g.units[p] /\ CellsOf(h, p) = CellsOf(g, p)

\* The defender of the pending combat of g has lost in h the attack value
\* of the attacker, not below 0, and nothing else; it is where it was if it
\* has survived.
DefenderHit(g, h) ==
    LET anim == g.combat_anim[1]
        a == g.units[anim.attacker]
        d == g.units[anim.defender]
    IN  /\ h.units[anim.defender] = [d EXCEPT !.hp = IF @ > a.attack THEN @ - a.attack ELSE 0]
        /\ h.units[anim.defender].hp > 0 => CellsOf(h, anim.defender) = CellsOf(g, anim.defender)

C33_AwayFromAttackedCell ==
    [][CombatApplied(game, game') =>
          /\ DefenderHit(game, game')
          /\ \A p \in DOMAIN game.units :
                (/\ p # game.combat_anim[1].defender
                 /\ game.combat_anim[1].defender_pos \notin CellsOf(game, p))
                    => Untouched(game, game', p)]_vars

\* The selection of g: the piece, its cell and its two sets.
Selection(g) ==
    <<g.selected_piece, g.selected_row, g.selected_col, g.valid_moves, g.attack_targets>>

\* `cell` holds a living unit of the active side of g.
OwnLivingAt(g, cell) ==
    /\ g.grid[cell] # None
    /\ g.units[g.grid[cell]].hp > 0
    /\ g.units[g.grid[cell]].color = g.current_player

\* In h the unit on `cell` is selected, with the moves and attack targets
\* it has on the board of g, in "move" mode.
SelectedAt(g, h, cell) ==
    /\ h.selected_piece = g.grid[cell]
    /\ <<h.selected_row, h.selected_col>> = cell
    /\ h.valid_moves = get_valid_moves(g.units, g.grid, g.grid[cell])
    /\ h.attack_targets = get_attack_targets(g.units, g.grid, g.grid[cell])
    /\ h.action_mode = "move"

\* What a click on `cell` in a battle does to the selection.
ClickSelects(g, h, cell) ==
    IF g.selected_piece # None /\ cell = <<g.selected_row, g.selected_col>>
    THEN h.selected_piece = None /\ h.valid_moves = {} /\ h.attack_targets = {}
    ELSE OwnLivingAt(g, cell) => SelectedAt(g, h, cell)

\* What the toggle command does.
ToggleSwaps(g) ==
    LET h == toggle_action_mode(g)
    IN  IF g.selected_piece = None
        THEN h = g
        ELSE /\ h.action_mode = (IF g.action_mode = "move" THEN "attack" ELSE "move")
             /\ h.action_mode \in {"move", "attack"}
             /\ Selection(h) = Selection(g)
             /\ toggle_action_mode(h).action_mode = g.action_mode
             /\ Selection(toggle_action_mode(h)) = Selection(g)

(***************************************************************************)
(* C35: the moves and the attack targets of a Pawn.                        *)
(***************************************************************************)

\* The cell k steps ahead of unit u: rows decrease for White, increase for
\* Black.
Ahead(u, k) == <<IF u.color = WHITE THEN u.row - k ELSE u.row + k, u.col>>

\* The cell holds no unit at all.
EmptyCell(g, cell) == cell \in Cells /\ g.grid[cell] = None

\* The moves the table of C35 gives a Pawn.
PawnMoves(g, u) ==
    {cell \in {Ahead(u, 1)} : EmptyCell(g, cell)} \cup
    {cell \in {Ahead(u, 2)} :
        /\ u.row = (IF u.color = WHITE THEN 6 ELSE 1)
        /\ EmptyCell(g, Ahead(u, 1))
        /\ EmptyCell(g, cell)}

\* The two diagonal-forward cells that hold a living unit of the other colour.
PawnTargets(g, u) ==
    {cell \in {<<Ahead(u, 1)[1], u.col - 1>>, <<Ahead(u, 1)[1], u.col + 1>>} :
        /\ cell \in Cells
        /\ g.grid[cell] # None
        /\ g.units[g.grid[cell]].color # u.color
        /\ g.units[g.grid[cell]].hp > 0}

\* C35: every Pawn on the board has as moves the empty cell one step ahead
\* and, from its start row (6 for White, 1 for Black) with both cells empty,
\* the cell two steps ahead, never a diagonal or an occupied cell; its attack
\* targets are the diagonal-forward cells holding a living enemy; and a
\* selected Pawn carries exactly these two sets.
C35_PawnMovesAndTargets ==
    /\ \A p \in DOMAIN game.units :
          game.units[p].cls = "Pawn" =>
             /\ get_valid_moves(game.units, game.grid, p) = PawnMoves(game, game.units[p])
             /\ get_attack_targets(game.units, game.grid, p) = PawnTargets(game, game.units[p])
             /\ \A cell \in get_valid_moves(game.units, game.grid, p) :
                   cell[2] = game.units[p].col /\ game.grid[cell] = None
    /\ (game.selected_piece # None /\ game.units[game.selected_piece].cls = "Pawn") =>
          /\ game.valid_moves = PawnMoves(game, game.units[game.selected_piece])
          /\ game.attack_targets = PawnTargets(game, game.units[game.selected_piece])

\* A White Pawn selected on its start row (6,1) with both cells ahead empty
\* has the two moves, and a living Black unit on a diagonal is its target.
C35_Witness ==
    /\ game.selected_piece = 1
    /\ game.units[1].cls = "Pawn" /\ game.units[1].color = WHITE
    /\ <<game.units[1].row, game.units[1].col>> = <<6, 1>>
    /\ game.valid_moves = {<<5, 1>>, <<4, 1>>}
    /\ game.attack_targets = {<<5, 2>>}

(***************************************************************************)
(* C36: deploy_from_reserve against try_deploy_to_position.                *)
(***************************************************************************)

\* The board and the two reserves of a game.
BoardAndReserves(g) ==
    [grid |-> g.grid,
     places |-> [p \in DOMAIN g.units |-> <<g.units[p].row, g.units[p].col>>],
     white_reserve |-> g.white_reserve, black_reserve |-> g.black_reserve]

\* The two methods agree on one request: both accept or both reject, and on
\* acceptance the board and the reserves are the same.
SameDeployment(g, player, reserve_index, row, col) ==
    LET a == deploy_from_reserve(g, player, reserve_index, row, col)
        b == try_deploy_to_position(g, player, reserve_index, row, col)
    IN  /\ a.ok = b.ok
        /\ a.ok => BoardAndReserves(a.g) = BoardAndReserves(b.g)

\* The rows only deploy_from_reserve takes as part of a side's zone.
ThirdRow(player) == IF player = WHITE THEN 5 ELSE 2

C36_SameOutsideThirdRow ==
    \A player \in Colors, reserve_index \in ReserveSlots :
       \A row \in 0 .. (BoardSize - 1), col \in 0 .. (BoardSize - 1) :
          row # ThirdRow(player) =>
             SameDeployment(game, player, reserve_index, row, col)

(***************************************************************************)
(* C37: a resolved attack and the units it was not issued against.         *)
(***************************************************************************)

\* Unit p, on the board of g, is on the board of h.
StaysOnBoard(g, h, p) == CellsOf(g, p) # {} => CellsOf(h, p) # {}

\* Unit p has in h the hit points it has in g.
KeepsHitPoints(g, h, p) == h.units[p].hp = g.units[p].hp

C37_OthersKeepHitPoints ==
    [][CombatApplied(game, game') =>
          \A p \in DOMAIN game.units \ {game.combat_anim[1].defender} :
             KeepsHitPoints(game, game', p)]_vars

(***************************************************************************)
(* SpecMatch: a match up to its end and the events main still passes to    *)
(* the ended game.  Both kings can be reduced to 0 hit points, by a Knight *)
(* within reach or by the Arrow Volley both shops offer.                   *)
(***************************************************************************)

\* The kings with the hit points given, each within reach of a Knight of
\* the other side.
MatchUnits(whp, bhp) ==
    <<[King(WHITE, 7, 2) EXCEPT !.hp = whp],
      [King(BLACK, 1, 5) EXCEPT !.hp = bhp],
      Knight(WHITE, 3, 4),
      Knight(BLACK, 5, 1)>>

\* Both offers: an Arrow Volley, then Queens no side can pay.
MatchRolls ==
    [i \in 1 .. ShopSlots |->
        IF i = 1 THEN [kind |-> "card", w |-> "arrow_volley", b |-> "arrow_volley"]
        ELSE [kind |-> "piece", w |-> "queen", b |-> "queen"]]

\* The cells clicked: the four units and a move of each Knight.
MatchCells == {<<3, 4>>, <<1, 5>>, <<5, 1>>, <<7, 2>>, <<2, 2>>, <<3, 2>>}

\* Battles are started in the rounds up to this one.
MatchRounds == 3

InitMatch ==
    \E hp \in GameKingHp :
       game = NewGame(MatchUnits(hp[1], hp[2]), GridOf(MatchUnits(hp[1], hp[2])),
                      MatchRolls, FALSE)

\* A click on the first slot of a shop rectangle.  MOUSEBUTTONDOWN replaces
\* an ended game before it handles the click, MOUSEBUTTONUP passes the click
\* to handle_click of the game as it is, ended or not.
MatchShopClick ==
    \E player \in Colors : game' = handle_shop_click(game, player, 0)

\* A click on a cell of the board, on MOUSEBUTTONDOWN or MOUSEBUTTONUP.
MatchClick ==
    \E cell \in MatchCells, rolls \in {MatchRolls} :
       game' = handle_board_click(game, cell[1], cell[2], rolls)

\* K_b while the phase is Setup or Shop; KEYDOWN replaces an ended game.
MatchKeyB ==
    /\ ~game.end
    /\ game.phase \in {SETUP, SHOP}
    /\ game.round_number <= MatchRounds
    /\ game' = start_battle_phase(game)

\* K_SPACE with a piece selected in a battle.
MatchKeySpace ==
    /\ ~game.end
    /\ game.selected_piece # None
    /\ game.phase = BATTLE
    /\ game' = toggle_action_mode(game)

\* A frame drawn once the 600 ms of a combat animation have elapsed.
MatchDraw ==
    /\ game.combat_anim # NoAnim
    /\ game' = draw(game, MatchRolls)

NextMatch == MatchKeyB \/ MatchKeySpace \/ MatchShopClick \/ MatchClick \/ MatchDraw

SpecMatch == InitMatch /\ [][NextMatch]_vars

(***************************************************************************)
(* C38: the win bonus.                                                     *)
(***************************************************************************)

\* The number of times the win bonus has been added to a side's coins.
BonusCount(g) == g.win_bonuses[WHITE] + g.win_bonuses[BLACK]

\* The coins the step from g to h adds to side c beyond the kill reward of
\* a combat it resolves.
Gain(g, h, c) ==
    Coins(h, c) - Coins(g, c)
       - (IF g.combat_anim # NoAnim /\ h = draw(g, MatchRolls) THEN PendingReward(g, c) ELSE 0)

\* C38: the win bonus is added at most once in a match and to one side; the
\* step that adds it ends the match and credits the winner the bonus and the
\* round income and the other side the round income alone, also when both
\* kings are not alive at that check; and no step of the ended match adds it
\* again.
C38_WinBonusOnce ==
    [][/\ BonusCount(game') <= 1
       /\ game.end => game'.end /\ game'.win_bonuses = game.win_bonuses
       /\ \A c \in Colors :
             game'.win_bonuses[c] > game.win_bonuses[c] =>
                /\ ~game.end /\ game'.end
                /\ Gain(game, game', c) = WinBonus + RoundIncome
                /\ Gain(game, game', Other(c)) = RoundIncome
       /\ (~game.end /\ game'.end) => BonusCount(game') = 1]_vars

\* The match has ended at a check that found neither king alive: Black has
\* the bonus once, White has none, and the coins are what a side has left
\* from its Arrow Volley plus the round income and, for Black, the bonus.
C38_Witness ==
    /\ game.end
    /\ ~is_king_alive(game, WHITE) /\ ~is_king_alive(game, BLACK)
    /\ game.win_bonuses = [c \in Colors |-> IF c = BLACK THEN 1 ELSE 0]
    /\ game.white_coins = RoundIncome
    /\ game.black_coins = WinBonus + RoundIncome

(***************************************************************************)
(* C34: selection and the toggle.                                          *)
(***************************************************************************)

\* Every click of the step from g to h on one of `cells` does to the
\* selection what ClickSelects says.
SelectionStep(g, h, cells, draws) ==
    \A cell \in cells, rolls \in draws :
       h = handle_board_click(g, cell[1], cell[2], rolls) => ClickSelects(g, h, cell)

\* Nothing is selected, or a unit of the side to play.
OwnSelection(g) ==
    g.selected_piece = None \/ g.units[g.selected_piece].color = g.current_player

C34_WithOwnSelection ==
    [][/\ ToggleSwaps(game)
       /\ (game.phase = BATTLE /\ ~game.end /\ OwnSelection(game)) =>
             SelectionStep(game, game', MatchCells \cup ClickCells,
                           {MatchRolls} \cup ShopRolls)]_vars

(***************************************************************************)
(* game.py: the plain game, run by main.py.  A Game is a record with the   *)
(* attributes of class Game; its board is the pair units and grid.         *)
(***************************************************************************)

PLAYING == "playing"
WHITE_WINS == "white_wins"
BLACK_WINS == "black_wins"

\* Game.add_to_log keeps the last 8 messages.
GameLogCapacity == 8

\* Board.setup_initial_pieces
setup_initial_pieces ==
    <<King(WHITE, 7, 4), Rook(WHITE, 7, 0), Rook(WHITE, 7, 7), Knight(WHITE, 7, 1),
      Knight(WHITE, 7, 6), Bishop(WHITE, 7, 2), Bishop(WHITE, 7, 5), Queen(WHITE, 7, 3)>>
    \o [col \in 1 .. BoardSize |-> Pawn(WHITE, 6, col - 1)]
    \o <<King(BLACK, 0, 4), Rook(BLACK, 0, 0), Rook(BLACK, 0, 7), Knight(BLACK, 0, 1),
         Knight(BLACK, 0, 6), Bishop(BLACK, 0, 2), Bishop(BLACK, 0, 5), Queen(BLACK, 0, 3)>>
    \o [col \in 1 .. BoardSize |-> Pawn(BLACK, 1, col - 1)]

\* Game.add_to_log.  As in TFTGame, no method reads game_log except to draw
\* it; a game that starts with log_tracked false leaves its log empty.
Game_add_to_log(g, message) ==
    LET log == Append(g.game_log, message)
    IN  IF g.log_tracked
        THEN [g EXCEPT !.game_log = IF Len(log) > GameLogCapacity THEN Tail(log) ELSE log]
        ELSE g

\* Game.__init__ on the board given.
Game_init(units, log_tracked) ==
    [units |-> units, grid |-> GridOf(units), log_tracked |-> log_tracked,
     current_player |-> WHITE,
     selected_piece |-> None, selected_row |-> -1, selected_col |-> -1,
     valid_moves |-> {}, attack_targets |-> {},
     game_state |-> PLAYING, action_mode |-> "move", game_log |-> <<>>]

\* Game.select_piece
Game_select_piece(g, piece, row, col) ==
    [g EXCEPT !.selected_piece = piece, !.selected_row = row, !.selected_col = col,
              !.valid_moves = get_valid_moves(g.units, g.grid, piece),
              !.attack_targets = get_attack_targets(g.units, g.grid, piece),
              !.action_mode = "move"]

\* Game.deselect_piece
Game_deselect_piece(g) ==
    [g EXCEPT !.selected_piece = None, !.selected_row = -1, !.selected_col = -1,
              !.valid_moves = {}, !.attack_targets = {}, !.action_mode = "move"]

\* Game.switch_player
Game_switch_player(g) ==
    Game_add_to_log([g EXCEPT !.current_player = Other(@)],
                    Title(Other(g.current_player)) \o "'s turn")

\* Game.check_win_condition
Game_check_win_condition(g) ==
    IF ~is_king_alive(g, WHITE)
    THEN Game_add_to_log([g EXCEPT !.game_state = BLACK_WINS],
                         "BLACK WINS! White King defeated!")
    ELSE IF ~is_king_alive(g, BLACK)
    THEN Game_add_to_log([g EXCEPT !.game_state = WHITE_WINS],
                         "WHITE WINS! Black King defeated!")
    ELSE g

\* Game.handle_combat
Game_handle_combat(g, attacker, defender) ==
    LET a == g.units[attacker]
        g1 == [g EXCEPT !.units[defender] = take_damage(@, a.attack)]
        d == g1.units[defender]
        g2 == Game_add_to_log(g1,
                 Title(a.color) \o " " \o Title(a.piece_type) \o " attacks "
                    \o Title(d.color) \o " " \o Title(d.piece_type) \o " for "
                    \o ToString(a.attack) \o " damage")
    IN  IF ~is_alive(d)
        THEN Game_add_to_log(g2, Title(d.color) \o " " \o Title(d.piece_type)
                                    \o " is destroyed!")
        ELSE Game_add_to_log(g2, Title(d.color) \o " " \o Title(d.piece_type) \o " has "
                                    \o ToString(d.hp) \o "/" \o ToString(d.max_hp)
                                    \o " HP remaining")

\* Game.make_move
Game_make_move(g, from_row, from_col, to_row, to_col) ==
    LET moving_piece == get_piece_at(g, from_row, from_col)
    IN  IF moving_piece = None \/ ~is_alive(g.units[moving_piece])
        THEN g
        ELSE LET g1 == IF get_piece_at(g, to_row, to_col) = None
                       THEN Game_add_to_log(
                              move_piece(g, from_row, from_col, to_row, to_col),
                              Title(g.units[moving_piece].piece_type) \o " moves to "
                                 \o CellName(to_row, to_col))
                       ELSE g
             IN  Game_check_win_condition(Game_switch_player(Game_deselect_piece(g1)))

\* Game.make_attack
Game_make_attack(g, attacker_row, attacker_col, target_row, target_col) ==
    LET attacking_piece == get_piece_at(g, attacker_row, attacker_col)
        target_piece == get_piece_at(g, target_row, target_col)
    IN  IF attacking_piece = None \/ ~is_alive(g.units[attacking_piece])
        THEN g
        ELSE IF target_piece = None \/ ~is_alive(g.units[target_piece])
        THEN g
        ELSE IF ~can_attack(g.units, g.grid, attacking_piece, target_row, target_col)
        THEN g
        ELSE LET g1 == Game_handle_combat(g, attacking_piece, target_piece)
                 g2 == IF ~is_alive(g1.units[target_piece])
                       THEN [g1 EXCEPT !.grid[<<target_row, target_col>>] = None]
                       ELSE g1
             IN  Game_check_win_condition(Game_switch_player(Game_deselect_piece(g2)))

\* What handle_click does with a click once the game state has been tested.
Game_click_on(g, row, col) ==
    IF ~is_valid_position(row, col)
    THEN g
    ELSE LET clicked_piece == get_piece_at(g, row, col)
             own == /\ clicked_piece # None
                    /\ g.units[clicked_piece].color = g.current_player
                    /\ is_alive(g.units[clicked_piece])
         IN  IF g.selected_piece = None
             THEN IF own THEN Game_select_piece(g, clicked_piece, row, col) ELSE g
             ELSE IF row = g.selected_row /\ col = g.selected_col
             THEN Game_deselect_piece(g)
             ELSE IF <<row, col>> \in g.valid_moves /\ g.action_mode = "move"
             THEN Game_make_move(g, g.selected_row, g.selected_col, row, col)
             ELSE IF <<row, col>> \in g.attack_targets /\ g.action_mode = "attack"
             THEN Game_make_attack(g, g.selected_row, g.selected_col, row, col)
             ELSE IF own
             THEN Game_select_piece(g, clicked_piece, row, col)
             ELSE Game_deselect_piece(g)

\* handle_click without the test of the game state.
Game_handle_click_in_any_state(g, row, col) == Game_click_on(g, row, col)

\* Game.handle_click, with the cell get_cell_from_mouse gives.
Game_handle_click(g, row, col) ==
    IF g.game_state # PLAYING THEN g ELSE Game_click_on(g, row, col)

(***************************************************************************)
(* SpecPlain: main.py on the board of setup_initial_pieces and on a board  *)
(* of four units of piece.py, each king within reach of a Knight.          *)
(***************************************************************************)

PlainUnits ==
    <<King(WHITE, 7, 4), King(BLACK, 0, 4), Knight(WHITE, 2, 3), Knight(BLACK, 5, 3)>>

\* The cells clicked: the four units, two cells the Knights move to, a pawn
\* of the initial board with the cell ahead of it, and a click off the board.
PlainCells ==
    {<<7, 4>>, <<0, 4>>, <<2, 3>>, <<5, 3>>, <<4, 4>>, <<3, 4>>, <<6, 3>>, <<-1, 0>>}

\* main: Game() and the first message of the log.
PlainStart(units) ==
    Game_add_to_log(Game_init(units, FALSE), "Game started! White moves first.")

InitPlain == game \in {PlainStart(setup_initial_pieces), PlainStart(PlainUnits)}

\* MOUSEBUTTONDOWN, left button.
PlainClick ==
    \E cell \in PlainCells : game' = Game_handle_click(game, cell[1], cell[2])

\* K_SPACE with a piece selected.
PlainKeySpace ==
    /\ game.selected_piece # None
    /\ game' = Game_add_to_log(
                 [game EXCEPT !.action_mode = IF @ = "move" THEN "attack" ELSE "move"],
                 "Switched to "
                    \o (IF game.action_mode = "move" THEN "ATTACK" ELSE "MOVE") \o " mode")

\* K_r: Game.reset builds the game anew, on the board of setup_initial_pieces.
PlainKeyR ==
    game' = Game_add_to_log(Game_init(setup_initial_pieces, game.log_tracked),
                            "Game reset! White moves first.")

NextPlain == PlainClick \/ PlainKeySpace \/ PlainKeyR

SpecPlain == InitPlain /\ [][NextPlain]_vars

(***************************************************************************)
(* C39: the win states of the plain game.                                  *)
(***************************************************************************)

\* The game has been won.
Won(g) == g.game_state \in {WHITE_WINS, BLACK_WINS}

\* The game state that goes with the kings of g: Black has won when White's
\* king is not alive, White when only Black's is not, and play goes on when
\* both are alive.
StateOfKings(g) ==
    IF ~is_king_alive(g, WHITE) THEN BLACK_WINS
    ELSE IF ~is_king_alive(g, BLACK) THEN WHITE_WINS
    ELSE PLAYING

\* The step from g to h is a click that made a move or an attack.
Acted(g, h) ==
    /\ \E cell \in PlainCells : h = Game_handle_click(g, cell[1], cell[2])
    /\ h.current_player # g.current_player

\* C39: in a win state no click changes the game (board, current player,
\* selection, game state), and only a reset leaves the state; the game state
\* is a win state exactly when a king is not alive, and it is entered by the
\* move or attack after which that king is not alive.
C39_WinStateAbsorbing ==
    [][/\ Won(game) =>
             /\ \A cell \in PlainCells : Game_handle_click(game, cell[1], cell[2]) = game
             /\ game' = PlainStart(setup_initial_pieces) \/ game' = game
       /\ game'.game_state = StateOfKings(game')
       /\ Acted(game, game') => (Won(game') <=> StateOfKings(game') # PLAYING)
       /\ (~Won(game) /\ Won(game')) =>
             /\ Acted(game, game')
             /\ is_king_alive(game, WHITE) /\ is_king_alive(game, BLACK)]_vars

\* White has won: Black's king is off the board with no hit points left,
\* nothing is selected, and it would be the turn of Black, whose Knight
\* still stands on a cell that is clicked.
C39_Witness ==
    /\ game.game_state = WHITE_WINS
    /\ ~is_king_alive(game, BLACK)
    /\ game.units[2].hp = 0
    /\ game.selected_piece = None
    /\ game.current_player = BLACK
    /\ \E cell \in PlainCells :
          /\ is_valid_position(cell[1], cell[2])
          /\ game.grid[cell] # None
          /\ game.units[game.grid[cell]].color = BLACK
          /\ is_alive(game.units[game.grid[cell]])
=============================================================================
